---- MODULE Spec2Model ----
(***************************************************************************)
(* generate.py: process_videos() joins the clips of videos/, the images of *)
(* images_cropped/ and the entries of labels.txt by bird id, validates     *)
(* that every bird is complete, gives each bird a 4-character code (the    *)
(* tail of an MD5 over a 3-digit number), produces sounds/{code}.mp3 and   *)
(* images/{code}.jpg and finally writes birdmap.json.                      *)
(*                                                                         *)
(* Strings the code inspects character by character (file stems, bird ids, *)
(* the 3-digit id) are sequences of one-character strings.  Codes and      *)
(* names, which the code only compares and copies, are TLA+ strings.       *)
(***************************************************************************)
EXTENDS Integers, Sequences, FiniteSets, TLC

\* ------------------------------------------------------------------ bounds
MaxLen == 4        \* longest video stem of the single-clip inputs
MaxVideos == 3     \* most clips in videos/ for the small inputs
MaxImages == 2     \* most images in images_cropped/ for the small inputs
BulkItems == 98    \* number of birds of the large, complete input
MaxLineLen == 6    \* longest line of a one-line labels.txt
MaxLines == 2      \* most lines of a labels.txt made of sample lines

\* ------------------------------------------------------- program constants
max_attempts == 1000
CollisionOffset == 200

\* ----------------------------------------------------------------- strings
Alphabet == {"(", ")", "7", "8"}

DigitChars == <<"0", "1", "2", "3", "4", "5", "6", "7", "8", "9">>

RECURSIVE Digits(_)
\* str(n) for n >= 0
Digits(n) ==
    IF n < 10 THEN <<DigitChars[n + 1]>>
    ELSE Append(Digits(n \div 10), DigitChars[(n % 10) + 1])

\* f"{n:03d}": at least three digits, zero-padded on the left, never truncated
ZeroPad3(n) ==
    LET d == Digits(n)
    IN  IF Len(d) >= 3 THEN d
        ELSE [i \in 1..(3 - Len(d)) |-> "0"] \o d

DigitValue(ch) == CHOOSE d \in 0..9 : DigitChars[d + 1] = ch

RECURSIVE DecimalValue(_)
DecimalValue(s) ==
    IF s = <<>> THEN 0
    ELSE 10 * DecimalValue(SubSeq(s, 1, Len(s) - 1)) + DigitValue(s[Len(s)])

\* hashlib.md5(s.encode()).hexdigest()[-4:] for the strings "001", "002", ...
\* (entry n is the digest tail of ZeroPad3(n), computed with hashlib)
MD5Tail ==
<<
    "e34f", "f05a", "6080", "072a", "a68d", "6e93", "0d39", "3704", "0c35", "32e2",
    "6d53", "eb38", "7e73", "caa7", "e1f5", "3f8a", "dca6", "1e24", "d3b6", "cce6",
    "bd75", "66db", "136c", "25f6", "57b8", "18eb", "42ae", "0535", "2d2e", "76a6",
    "1c9e", "2b68", "a331", "c465", "7f54", "c3c8", "6b82", "e705", "f2bb", "e4b9",
    "4b38", "04f0", "77cb", "f812", "2da4", "acc1", "bd38", "3d80", "6872", "2ffe",
    "22e5", "3aa0", "00e8", "7a2a", "21c5", "ef6b", "04b1", "9ddd", "f91b", "00ed",
    "63bb", "e167", "7d3a", "f228", "c13f", "5ff8", "7f64", "a7e4", "569a", "3252",
    "455c", "5a22", "d596", "be17", "8df7", "2fff", "2412", "d1f4", "0aba", "5693",
    "0651", "7c95", "76ae", "b3e1", "4856", "47b3", "f75c", "6702", "fe32", "b9e9",
    "c958", "2ff8", "8c7b", "58be", "4612", "6528", "52d7", "7c95", "50ab", "c6dd",
    "9b52", "ce5e", "9548", "7294", "186f", "a70f", "3904", "7d0b", "8b9d", "9f3e",
    "1668", "91b5", "6997", "5add", "7c48", "c48f", "bd68", "62bd", "ac3f", "2642",
    "997a", "95dd", "4b70", "b445", "93dd", "b6ec", "c9f2", "db5c", "ca25", "5aa6",
    "2ee5", "f430", "bc43", "524d", "0e54", "7c4e", "f332", "83b9", "3de0", "7439",
    "df4c", "8c22", "44d3", "d6b6", "12c8", "f87b", "6413", "728e", "c6ca", "be1f",
    "15cf", "3cae", "b5dc", "e48e", "b00a", "f2da", "ce87", "23b4", "461e", "3a92",
    "d1fb", "0aa3", "af6f", "f1c3", "bd7e", "617a", "72fa", "a989", "fbb3", "8868",
    "3ada", "4b1e", "06f0", "a23f", "a1e4", "442e", "d6f7", "bdcb", "104f", "113f",
    "e1c8", "8009", "e9d7", "d402", "c534", "6094", "490d", "afad", "1697", "0c31",
    "0afc", "826d", "e613", "5d4a", "8a0e", "e7c9", "9954", "a705", "a865", "9a77",
    "5293", "4486", "bbd2", "d9a4", "7d69", "659f", "e1ca", "3fc9", "0ba2", "f557",
    "3e74", "1331", "a8b5", "8265", "9ba5", "322d", "91d4", "168f", "990d", "1227",
    "1477", "34dd", "338e", "32f3", "acaf", "0ed1", "afb3", "6deb", "38cf", "4e57",
    "a594", "36a1", "5b43", "29e7", "6a1e", "4d84", "eaf2", "bbe8", "a635", "e24c",
    "1daf", "e6a5", "fca4", "9bca", "7d97", "be6a", "4bbb", "b793", "a330", "7658",
    "96f4", "1860", "a028", "3ad6", "dae2", "5cab", "86c9", "578f", "49f7", "5d66",
    "c3f5", "eba3", "5ecf", "8dc8", "6a88", "a4b6", "a357", "4521", "ac75", "660e",
    "0931", "edeb", "ac6d", "4ff8", "51e7", "4529", "b3f6", "ea57", "f4ee", "8233",
    "bcb7", "1bc5", "9d48", "4217", "722d", "4330", "c9f9", "cddd", "fe8e", "3a37",
    "64f6", "b758", "cb54", "86fb", "6406", "9b50", "7585", "ea88", "c61f", "988c",
    "7639", "e7d4", "cd68", "364c", "ea28", "bda5", "5761", "dab7", "bd40", "99dc",
    "d3e5", "c179", "e422", "a72b", "0ab6", "a4cd", "2dac", "edce", "3735", "b982",
    "5cfa", "0d9a", "aed2", "9f0c", "4ffa", "8a27", "e880", "286c", "b575", "a5f9",
    "5d4a", "b0fe", "56bd", "fd79", "f68f", "443d", "9dc4", "4317", "515f", "af5b",
    "b9ce", "3422", "02f5", "bd5a", "4900", "ac41", "467b", "d37b", "0817", "66cd",
    "dc23", "99b5", "292a", "e53c", "3496", "ba71", "e6d7", "e7ef", "dd4c", "ca0e",
    "a99f", "9acf", "5f85", "51b3", "7ff9", "b160", "b2cc", "1ca3", "ee19", "8ce5",
    "6ed0", "83ac", "dd9c", "6698", "35dd", "00a4", "d9ff", "9fb3", "4059", "77c7",
    "7ba1", "22e5", "8f07", "945b", "6640", "ea48", "7bb8", "4e70", "6f2b", "9a09",
    "c14e", "0e8f", "ec2b", "8d4e", "dc5b", "b3bb", "800d", "700c", "acea", "05c8",
    "4818", "0b14", "fe7d", "f10a", "c6c2", "8da2", "2017", "b868", "ffbb", "89e2",
    "372b", "000b", "2511", "d906", "1125", "6ac0", "22fb", "7eca", "f790", "2772",
    "3d24", "5eb3", "8fd0", "e2a6", "04c9", "8d81", "3363", "947e", "f104", "a70c",
    "9b1b", "de4a", "07d7", "15b3", "6d03", "8ea5", "d5dd", "abd3", "8c24", "f80b",
    "f133", "5a95", "6910", "3500", "bfac", "ae50", "c0c1", "9098", "7c8b", "d4d9",
    "5a61", "4509", "2aa2", "57ac", "6845", "9a02", "2dca", "44de", "f708", "43a1",
    "b5cf", "5b26", "5cde", "0f19", "0f55", "b40e", "aa00", "a858", "6bb7", "3318",
    "618b", "d342", "7462", "3cb2", "b6f9", "db01", "4e09", "cdc1", "89af", "85c6",
    "69b0", "6eb0", "fdd5", "687b", "520e", "fa2f", "95f7", "c308", "5561", "9a5c",
    "1dc2", "a158", "5716", "cbef", "307f", "a1d6", "9c33", "7331", "1103", "c89b",
    "995e", "f5ae", "09a0", "9e80", "4f78", "8de5", "ae2e", "88f6", "9c13", "d35f",
    "697f", "b59f", "a439", "0b1e", "ed93", "6f6d", "5956", "1cef", "d5f7", "d82e",
    "55af", "cd49", "d615", "3c68", "8e24", "f702", "10db", "1e2c", "3c95", "1454",
    "fca7", "06fc", "474f", "c45b", "4bb2", "7cb9", "3e59", "6bc8", "8f90", "f823",
    "6c57", "27f7", "f280", "1515", "5551", "6d2e", "e73c", "3617", "cf36", "98a9",
    "5ef7", "a072", "12bc", "9ccd", "03c9", "0e40", "ada0", "d328", "2fe6", "bf40",
    "f0ab", "f8e5", "9e21", "be3a", "995f", "faeb", "aa3d", "40e8", "42eb", "5534",
    "0201", "aa10", "18b6", "dbe5", "448d", "83d2", "880d", "6138", "42c3", "e4cb",
    "d2a6", "96be", "fb32", "2f98", "4f84", "f9a2", "ac32", "40f0", "978c", "0bdd",
    "63b0", "eb64", "4fe1", "9f2b", "ddbc", "4f0a", "850c", "2863", "cd18", "7ad1",
    "2b3d", "b30d", "ab6d", "739b", "e56e", "4b6f", "94a6", "918b", "06f2", "0a00",
    "1b68", "02dc", "1b7b", "19cf", "d087", "fc16", "f6c4", "83a2", "b35f", "06fa",
    "6969", "193f", "0e62", "6760", "fbd2", "a86d", "414c", "28a2", "b291", "50e2",
    "16c2", "e2cf", "6a25", "4aee", "454b", "1ec6", "83ff", "9605", "7592", "6dc1",
    "d40c", "b3a7", "dfc0", "fadc", "0b13", "e63e", "3050", "e111", "c01d", "4ddd",
    "d097", "7602", "8915", "191b", "3f3a", "6f33", "7088", "b0d9", "c455", "553c",
    "028c", "bf9c", "0e0e", "b7e0", "1f96", "4e53", "f33e", "3395", "f728", "56d0",
    "bea9", "1334", "cbad", "38a3", "9afe", "1d84", "9936", "c600", "c39c", "c026",
    "338e", "e944", "f6df", "2177", "97c2", "f03d", "f21e", "dc2a", "39b0", "2824",
    "ac0e", "5e0c", "c610", "6619", "068f", "cfc7", "a7cc", "4645", "1d96", "6bbe",
    "5d1f", "b32c", "c962", "178e", "cab4", "3fde", "36cc", "5fe6", "c986", "3446",
    "321d", "7941", "208b", "ec4c", "6ec8", "448f", "fcbb", "dab3", "4cea", "6917",
    "de7f", "9088", "5226", "f3c8", "2fed", "ef36", "a1d7", "3bfc", "250d", "44c1",
    "57e3", "be0a", "3a28", "99f1", "484c", "1eba", "a6a7", "adfc", "4358", "d90f",
    "ab89", "ad3b", "9550", "a554", "4fb9", "8cfe", "e96d", "0682", "d19e", "20f2",
    "8f7c", "6b5c", "9425", "ad1b", "a92f", "6dd9", "6f9b", "fc45", "0169", "08f1",
    "554b", "872d", "27b6", "e2b9", "074e", "21c3", "0946", "f2a0", "9c5d", "e89a",
    "8496", "977a", "5de0", "f2c3", "c9d0", "44d0", "fc33", "708e", "44e7", "2d0a",
    "7443", "9eb0", "49ec", "3d29", "1c65", "d8cd", "f8fb", "1593", "0cf7", "448e",
    "e1cf", "8ac9", "88ee", "53ec", "0f01", "fc58", "feae", "f3cb", "fc8a", "daec",
    "a31a", "ae5f", "917e", "885b", "6c88", "805e", "5bb8", "1c37", "6346", "2283",
    "9189", "1a93", "7347", "eb63", "0768", "e8f1", "ccb5", "5589", "f723", "476c",
    "6e2c", "659d", "ed35", "a10d", "dd20", "b9e9", "35c7", "6f4b", "ff5f", "67eb",
    "f3f0", "a004", "a755", "fdc2", "12a5", "8dd8", "f5cc", "2f39", "90fb", "d006",
    "e1a0", "8c0e", "67e5", "9061", "557c", "579a", "7f3b", "3626", "6e35", "4536",
    "123c", "0650", "56e6", "0488", "05cb", "d858", "a8a5", "689b", "ac8e", "5ead",
    "ee3b", "afd0", "01dd", "fd4b", "2d76", "dd70", "c737", "32e8", "f630", "1417",
    "dd54", "477d", "bb34", "c559", "1a84", "6f59", "7885", "8c16", "eb92", "1742",
    "1f60", "45ca", "cc7f", "6a34", "0c60", "336f", "e085", "d5ee", "4ad3", "2381",
    "e6be", "e6f1", "67e7", "ebfe", "50ac", "be77", "d237", "30de", "2147", "bf6d",
    "9bcd", "7df8", "c67c", "db98", "504b", "1301", "9f91", "c52c", "df94", "a75f",
    "3204", "a8a7", "b903", "334a", "a3b4", "f87c", "f988", "3724", "bbbf", "d1a7",
    "e0c0", "5881", "0579", "5e54", "c11a", "cbd8", "be4e", "4e7c", "da50", "2163",
    "f5a2", "e8bf", "f3a2", "0f0d", "11c0", "88ab", "95b5", "c36d", "f5b2", "bb64",
    "3bf6", "3564", "d1d4", "1016", "e98e", "f662", "8bf1", "b0db", "218a", "8ed4",
    "a9e0", "a21b", "b0fe", "4fa4", "d51f", "f091", "6b28", "8c9b", "1f55", "1136",
    "94c9", "7c0b", "ce68", "56d9", "3851", "0188", "d915", "45d1", "c627", "fa42",
    "5484", "f92f", "6b09", "fbe1", "a14e", "8e35", "9eaf", "5bd1", "628e", "48fe",
    "42f3", "5a7a", "f569", "158e", "a11b", "ff0a", "0eb0", "222b", "8926", "bc7f",
    "cfb4", "1bd3", "1d28", "a9f5", "8a03", "26fa", "88f2", "d4c3", "676a", "b3c5",
    "57da", "12a0", "8676", "ba4a", "2521", "0f56", "7bcd", "eb0d", "0dbd", "26bb",
    "ec87", "46a6", "8ca9", "fa0e", "14c4", "998d", "b6e4", "02fd", "16c9", "10e1",
    "1263", "0b6c", "264b", "6feb", "e70c", "dcfc", "2c9f", "d9e7", "398d", "063b",
    "3c96", "2a8f", "fc6d", "f787", "6748", "6723", "1cb0", "e21c", "e7d3", "29df",
    "54b8", "a8de", "6c72", "3f92", "c780", "119d", "3021", "c723", "a7ae", "b9ef",
    "9886", "a9cd", "6e97", "b919", "9c10", "e7a9", "b137", "b5bb", "d9f8", "c162",
    "9a4b", "2b20", "f5f0", "f082", "88fe", "df1e", "d64a", "451b", "02ef", "f48f",
    "4b58", "1a80", "ec1f", "15d6", "b040", "8389", "63b5", "e999", "970d", "3740",
    "56d2", "b4cb", "0274", "0f68", "e7eb", "e6d4", "54f9", "9afc", "f0c2", "b202",
    "532b", "50b4", "b313", "30a7", "9a04", "6087", "9ad7", "af3d", "b6ca", "a577",
    "be45", "99be", "6df0", "cecc", "343d", "5f67", "edf7", "652b", "5c48", "f9d1",
    "ceba", "9500", "e692", "879c", "855a", "6a1f", "8bc6", "cf6f", "8f90", "ef24",
    "6896", "a4e3", "b361", "bef4", "63b8", "bb98", "46b1", "420c", "610e", "caa4",
    "1877", "a521", "d16c", "9ebb", "2270", "8542", "85a8", "b573", "966e", "be7f",
    "e8fe", "ae85", "8cb6", "ed0d", "3958", "aeb7", "b9aa", "41a9", "47c6", "8d86",
    "63d5", "8053", "ea60", "dd06", "8f2a", "f845", "166c", "9cec", "e4d0", "dd73",
    "f94b", "0e0d", "b584", "d000", "c1ad", "88c6", "c6f4", "5dc8", "a3d2", "2658",
    "61b5", "42e0", "1ed7", "8b9b", "7d36", "8b86", "595f", "fc5d", "540b", "4104",
    "d292", "ec47", "cf6a", "6bed", "4534", "605a", "fc6e", "57c0", "1f1e", "1412",
    "61ba", "d2eb", "ece4", "5e74", "5961", "fe7a", "f735", "d1ab", "922f", "4244",
    "002d", "5683", "3606", "0323", "a582", "fdb2", "07a0", "4ba3", "321c", "bd78",
    "9095", "4d87", "ba1a", "8fa4", "7f88", "4305", "12f3", "2509", "2fe3", "7c57",
    "2983", "da4d", "3588", "93ba", "0a17", "a202", "a7cc", "2cc6", "0e93", "521d",
    "ce8e", "06dc", "da98", "d055", "5962", "52c1", "05e9", "386d", "898d", "12e7",
    "1db4", "a2ba", "4f4a", "9bf8", "77b5", "e1cf", "3688", "d8b8", "8b07", "ed53",
    "3a43", "6a9a", "c162", "b168", "78c2", "d47b", "86ca", "e1b5", "a507", "5b88",
    "39e2", "4aa0", "9632", "26c8", "e357", "7c33", "3b00", "337c", "166a", "5777",
    "9ae8", "0a71", "a6d6", "5d37", "1387", "4fd0", "894f", "1306", "860c", "8f86",
    "75b4", "d2f9", "338d", "75f8", "bedc", "cb82", "2065", "dcc3", "de03", "4758",
    "3cb0", "bc7c", "fb40", "b4ef", "704c", "92a7", "821f", "d133", "caf6", "1324",
    "5157", "8af1", "f69e", "d5d4", "e2b1", "20ef", "6fb6", "bdf8", "a23a", "d888",
    "82aa", "066f", "5c44", "176b", "3b06", "7860", "5c2c", "4bf9", "3d22", "8b45",
    "b94c", "bc68", "c3ef", "087c", "5691", "75a6", "cbf6", "26db", "9c09", "f688",
    "d944", "c792", "2730", "8fdc", "ddd9", "7977", "247b", "19cd", "ec26", "e009",
    "0635", "ecc6", "bd23", "9fe7", "7c84", "1d77", "d979", "f65c", "0c2b", "a2e9",
    "1af6", "a077", "3077", "272a", "0b54", "5e07", "4a79", "157c", "2818", "a2eb",
    "6502", "389e", "03fb", "1f2f", "3da8", "a777", "7553", "69fa", "d3f6", "6099",
    "9b60", "63bf", "78a0", "e2ac", "fec2", "3d6c", "abbd", "9522", "5083", "666d",
    "1db3", "28a6", "5598", "ccf3", "5690", "cf2c", "d4f6", "aa7e", "35f6", "050a",
    "8507", "c51d", "d2a8", "0d53", "3f57", "bafa", "c5ed", "6f56", "da6a", "5280",
    "c2b1", "a13d", "c3ad", "e40f", "4cee", "1153", "4991", "4467", "e4c9", "a291",
    "9561", "caca", "0c25", "ab2c", "59f3", "0723", "bd91", "1ddb", "97ee", "5c06",
    "901b", "faa2", "d241", "b215", "0f75", "293c", "6994", "f15c", "62c7", "266f",
    "7980", "b003", "de7c", "a66f", "0de8", "76b9", "6c0b", "ba81", "2b01", "d8ac",
    "661b", "929a", "feee", "ac74", "b8df", "2de2", "708f", "d9c0", "0c8b", "2b4d",
    "b675", "fe3c", "13b6", "7cbe", "462d", "7a98", "fa0e", "628b", "1cbb", "079a",
    "f853", "c615", "e7bf", "2652", "74d2", "35c1", "40e3", "62d8", "58d5", "f3bd",
    "829f", "cac1", "1c5a", "a43e", "3bf4", "be96", "0c74", "04ff", "5f64", "bcc9",
    "4d48", "b89f", "3c68", "738a", "6a4c", "3eba", "648c", "aae6", "a341", "446b",
    "6d7f", "2ed6", "7a2e", "dea0", "03e5", "de38", "5b2b", "baf0", "8223", "88c6",
    "549b", "5163", "468c", "28b7", "b70c", "cecc", "af76", "e2d0", "a93f", "e5a1",
    "811d", "4831", "ab61", "7512", "ecb8", "1a71", "5dff", "ae05", "0b7e", "5a1e",
    "2753", "5b15", "b8cc", "98fb", "f1ab", "aec2", "669f", "a41e", "5c19", "d623",
    "1858", "8e16", "b7c3", "b8ff", "f339", "9703", "3104", "ad9a", "063b", "4370",
    "6de0", "26c7", "baa5", "6480", "1685", "0a19", "6b4d", "ddd0", "d27f", "dcc8",
    "6615", "5a28", "d97a", "4712", "6034", "b8ef", "cc2d", "098f", "dede", "feed",
    "a69a", "48a9", "3964", "6469", "0769", "53cf", "54df", "63cf", "cddf", "77fd",
    "e625", "6efe", "d726", "8b48", "07fa", "f648", "d83f", "b2e6", "ce57", "1977",
    "5650", "688c", "479a", "f2ec", "6ab6", "0137", "2bd7", "28d5", "2094", "28a0",
    "1698", "46f4", "6eb2", "38bd", "26ec", "42aa", "717f", "bd1e", "0c9d", "fc44",
    "22c8", "c8de", "1f8a", "d4b2", "7b42", "48b6", "b256", "04f5", "966f", "43d2",
    "7b78", "b656", "496c", "5cac", "e766", "1e53", "292d", "15a0", "50cf", "ad98",
    "eb11", "3f20", "f235", "b94d", "2520", "aa83", "bdcc", "7d73", "6903", "4289",
    "1798", "0e31", "6228", "f818", "e8ef", "a09f", "c14f", "1f8e", "541e", "3d33",
    "e9ff", "efa0", "dd64", "5ccb", "ab52", "6766", "314d", "efaa", "11c1", "284b",
    "6846", "a240", "dbc7", "7c0d", "cb77", "6ceb", "35da", "77dd", "681b", "f6d3",
    "9e1a", "417a", "5e49", "ba8a", "a1a5", "ddda", "6517", "64d1", "38f9", "b2ef",
    "23e3", "9cab", "b9aa", "1881", "c235", "21b8", "6579", "2060", "ba4f", "a3a6",
    "3efc", "c359", "67b7", "401f", "164a", "8c22", "ed93", "5459", "facf", "920f",
    "db6f", "57a1", "523a", "ad39", "681f", "567d", "28a7", "108e", "9f44", "859b",
    "5834", "54bd", "0a06", "2700", "5d8f", "73be", "9dd2", "dc0f", "8491", "e0bd",
    "06bc", "c3c5", "3b0f", "130a", "81f9", "6934", "9ca0", "6e96", "076b", "f047",
    "1e5c", "e48a", "d776", "a463", "18cd", "efa7", "4ade", "6b20", "d85c", "66fc",
    "78b7", "fdb7", "9797", "0cd8", "1ed5", "36df", "199c", "fadd", "b81c", "8646",
    "68af", "a030", "40b3", "6691", "bf47", "74ca", "f2cd", "bb68", "2bdc", "b667",
    "8ac5", "d466", "9863", "3a79", "892b", "781c", "f029", "550d", "8b9c", "25dd",
    "1707", "263a", "eb38", "3cb8", "a8ea", "f46e", "f55c", "8c15", "9cbd", "fbe8",
    "ec3c", "a63b", "79de", "ebd9", "2f28", "644f", "2492", "f7ab", "1f0d", "7db1",
    "4f39", "cc06", "bf4c", "8641", "3bef", "76fa", "f0f5", "20eb", "178a", "ac34",
    "577e", "8748", "b5bb", "ca84", "e0ef", "5751", "c705", "1302", "60b8", "421b",
    "3582", "a7be", "42ad", "148c", "f864", "b78a", "0361", "15c3", "2d6f", "32d2",
    "4e48", "b922", "99f1", "ccb4", "ccf0", "e9a1", "3112", "74b1", "c930", "babb",
    "a859", "19fb", "984a", "20d2", "4a8b", "da27", "c70f", "8de6", "4ed9", "d1c0",
    "e2ee", "81a1", "963e", "29f4", "dacd", "c2f2", "64bd", "5345", "fa4c", "0ded",
    "93dd", "9a1d", "1f96", "b879", "00be", "f502", "b233", "3734", "6e00", "7818",
    "e5c5", "8b91", "e212", "5cfa", "0f87", "4de5", "73fc", "0a78", "bb24", "a4d8",
    "024c", "538c", "a12d", "02ec", "12d4", "483a", "7370", "b8e1", "d852", "818c",
    "a893", "9ab6", "efcf", "317a", "8679", "8f46", "eb37", "ba2a", "db1d", "2e43",
    "c94b", "f054", "435a", "ee02", "2232", "0a01", "2be0", "3470", "85be", "7407",
    "5ec5", "687b", "1313", "4120", "40cc", "1d26", "1626", "392e", "1bfe", "1964",
    "148b", "3abf", "80a4", "213e", "bf26", "02a5", "055f", "593c", "a248", "1cd6",
    "ee65", "099c", "0c78", "ebe8", "5e25", "c2ed", "62d3", "8ddb", "742c", "5896",
    "5fe5", "1fe7", "84d0", "df6e", "5ff3", "76fb", "3918", "4ec9", "44f7", "323c",
    "5fbd", "4e48", "3549", "833b", "2051", "fff6", "c2a9", "3395", "42fe", "229d",
    "7fc4", "f095", "b7a8", "2c3b", "f292", "33e5", "5dd4", "a185", "3322", "8f48",
    "4b48", "67c6", "b8a5", "4fa5", "4c7d", "8886", "bc4c", "3fb2", "c53c", "08c1",
    "9ccb", "d349", "a920", "d693", "cef1", "f67e", "f754", "247d", "6058", "4c33",
    "ad76", "8acd", "c989", "a41d", "c182", "0df9", "0c9c", "35fd", "7104", "9aaa",
    "086f", "b23d", "d70e", "963f", "7cb9", "7ff1", "6e6d", "cd11", "a2f5", "f64e",
    "2cf5", "6eaa", "219b", "1770", "1986", "fa97", "f733", "ea78", "0a39", "0d78",
    "ea7b", "6c53", "4dde", "970f", "f94a", "223d", "9564", "8a7e", "76b3", "7e76",
    "4aca", "4969", "9fc1", "44a2", "5dbb", "dad2", "750f", "7276", "58f4", "6c4e",
    "32d6", "eeee", "5f69", "fe71", "5065", "00fe", "ad97", "c653", "a22f", "afa9",
    "81ab", "3991", "dbaa", "ef80", "081f", "b65c", "df5f", "8ec2", "a4a0", "2601",
    "049c", "b2f0", "0da3", "fd50", "92d1", "7975", "d16d", "9047", "9ebe", "4dee",
    "eee7", "b75e", "5c08", "c38c", "09ba", "c7e7", "b32b", "fa77", "9758", "967f",
    "8ec0", "3af3", "e371", "38bf", "1310", "a25e", "79e9", "d80c", "0b3a", "6cbc",
    "8971", "8e50", "433e", "e917", "c8a9", "e9f3", "f38c", "8923", "0672", "169f",
    "167a", "c857", "cf88", "c082", "9a97", "2f72", "70ff", "44ef", "1a3a", "8068",
    "49cf", "6b9b", "6ce5", "2c36", "2ef7", "c7bf", "c9c3", "bc8c", "ca0d", "b894",
    "63fb", "03a6", "b552", "0573", "9bcb", "1750", "7fb3", "e104", "bb76", "91c7",
    "0e32", "48ce", "5055", "e6ba", "442d", "3010", "88e8", "725f", "fffd", "064d",
    "7157", "18ef", "78db", "c9fc", "de04", "eb71", "15f2", "0b77", "fd35", "3f13",
    "c7c8", "04f9", "8ee6", "6122", "8e36", "a702", "3139", "e023", "2d78", "8502",
    "0387", "6c0a", "2c36", "2239", "dd4f", "387a", "a65a", "0113", "caf7", "23d8",
    "8c05", "6ec5", "bc42", "78d4", "0ae1", "caf6", "11f3", "32b3", "6131", "40c2",
    "1bee", "0767", "50a6", "c80b", "c3c8", "dd6f", "0f55", "c7c0", "8b0f", "4f66",
    "ccdf", "845f", "0061", "de73", "c1e3", "3079", "a05e", "217d", "073f", "6b84",
    "0631", "c9f1", "89d1", "329c", "b3d9", "f341", "afdb", "1dab", "ad3c", "1dae",
    "1a5f", "da5d", "dbdf", "80bd", "16dd", "d6dd", "d39d", "93fc", "5017", "b7d1",
    "0c67", "ad0a", "a36d", "0add", "76e9", "b51a", "423a", "868a", "49a5", "9d54",
    "9394", "777f", "15a3", "c3e5", "9b7d", "5d7a", "bd8c", "d37b", "8cc9", "aeb1",
    "cbb7", "1611", "2ae7", "c56c", "34c9", "86bf", "7f57", "dfdb", "e72c", "103d",
    "07b8", "d329", "8e6e", "acfc", "4cf8", "1144", "23d9", "a3d2", "5337", "ebe3",
    "c028", "39f6", "617d", "2dc4", "2e21", "d52f", "405a", "5ee8", "1201", "f0a2",
    "4e49", "df4f", "d402", "a954", "b363", "166b", "b3e1", "938f", "ddfa", "abad",
    "f564", "da93", "7d0c", "59f0", "03ab", "9c26", "6c03", "ce36", "6df9", "9ee8",
    "3330", "ed74", "706b", "7692", "653d", "94ef", "4e3d", "5d8f", "57b9", "bdfb",
    "6c8e", "c887", "49f3", "5d8f", "b4d8", "60e6", "e008", "af2d", "5002", "0e7a",
    "ac2c", "464d", "3139", "9927", "d226", "1b0b", "8ff1", "958c", "1833", "ef79",
    "6a89", "c1cf", "6695", "9a78", "2e1a", "93a6", "1d0f", "66f6", "b7f5", "75e1",
    "9aa4", "4820", "c15f", "d164", "c6a7", "fd6f", "d2f1", "1245", "34f2", "eb82",
    "dd62", "b91d", "ae14", "5eef", "42bb", "d635", "9008", "5599", "e9b2", "8d3c",
    "13c9", "69c7", "9294", "9186", "dd14", "c953", "f3fb", "45f7", "9ec7", "19a8",
    "7a8d", "c65f", "bfe1", "975b", "c081", "1825", "cfcb", "2b53", "3222", "b3ea",
    "f4d1", "0a3c", "e77a", "3076", "28c5", "9a18", "bede", "f874", "ffe4", "07da",
    "5939", "beb1", "b536", "1ebb", "ff06", "72cf", "363c", "5740", "ac34", "dd54",
    "7a60", "ca4b", "447f", "0eac", "469c", "a112", "57e4", "2c87", "8c10", "efc3",
    "11bc", "44d2", "8ae6", "1fbb", "0750", "7c6a", "5089", "ae60", "e056", "a59b",
    "29be", "008a", "8272", "f618", "cafb", "824b", "51d6", "a047", "185d", "b82f",
    "76ae", "fa09", "f004", "cb18", "0d35", "7998", "d4f2", "3759", "48ff", "c595",
    "ef54", "78c8", "7072", "f444", "c51a", "42c5", "747e", "cfdc", "d41b", "4ce8",
    "06cc", "c904", "d58b", "c19f", "afe0", "193d", "6541", "bae1", "eb0c", "d0f8",
    "26df", "2cae", "f0ff", "f9ea", "2054", "2895", "47ef", "0f32", "f06e", "317a",
    "2af1", "4d52", "d9c1", "c4a8", "ee97", "8874", "17fa", "31fa", "3ba9", "e2b2",
    "caca", "4b95", "4edd", "12b7", "f526", "13e4", "011e", "6a50", "26b8", "e6b7",
    "0517", "16e0", "f3c1", "9ef2", "4884", "567f", "2a87", "908f", "1fa9", "0817",
    "94cf", "c403", "7f73", "d613", "d3bf", "afaa", "571a", "2428", "2d5e", "ec28",
    "7bf0", "9842", "8269", "641f", "3721", "5e56", "c475", "b739", "bcfe", "011f",
    "98bf", "0404", "7767", "1dfa", "4af5", "2859", "d0ba", "e9b8", "3aeb", "3923",
    "d87e", "22d7", "94a4", "e216", "c6fa", "affa", "785b", "7908", "2ae0", "de3a",
    "8dfc", "ac17", "cd78", "c2b0", "e38c", "2d33", "ea04", "5907", "0cf1", "2146",
    "67bf", "4d49", "ec8e", "c4d7", "b641", "a7d8", "f1bd", "32fd", "f761", "694c",
    "745d", "f8a3", "79bd", "296e", "fe9b", "1b69", "7de6", "0e8f", "0a83", "577e",
    "57a6", "b67e", "4ff8", "3ae8", "3bc1", "cde4", "da36", "be68", "159d", "04b7",
    "0152", "65c1", "874b", "cace", "b26b", "4b4a", "0f88", "b4fd", "afa3", "9cf3",
    "08ec", "a142", "e207", "f0ea", "a1ff", "38d2", "1272", "deb4", "f90c", "0831",
    "f4de", "3047", "d41d", "aa6b", "ae45", "2f98", "7031", "6bd1", "7697", "22b3",
    "4e87", "16b7", "81dd", "e153", "9f8b", "8a7f", "5abe", "954d", "8ce6", "c180",
    "24a2", "768c", "7616", "b3a8", "37b5", "b4d4", "d555", "4537", "0a22", "92d0",
    "069d", "d3d6", "ea61", "f477", "bccb", "2b48", "99bb", "558a", "bd58", "5511",
    "2a5a", "9c7a", "9dd3", "11bb", "f6ba", "4425", "354b", "dea4", "b40b", "504d",
    "6306", "d6af", "70bd", "2725", "1902", "8976", "536a", "cf8b", "1d16", "3814",
    "8382", "bb68", "9b2b", "6336", "be72", "4472", "e532", "c275", "cc21", "9355",
    "f486", "ee68", "f166", "d7f5", "994d", "ca62", "33d7", "84d3", "d6e5", "836f",
    "2e28", "7151", "370e", "2ece", "e4b4", "53bd", "ec23", "c0c0", "1f69", "e5f9",
    "96da", "7811", "8189", "8478", "3132", "88c9", "490c", "61b8", "f628", "2e60",
    "93da", "0218", "0cb0", "2c20", "9a1a", "4af8", "38f5", "9d5d", "68f5", "4ac3",
    "b1c0", "414d", "af24", "674b", "b76c", "5478", "29f8", "2996", "6d8e", "c697",
    "2ff5", "01bc", "4427", "32b5", "f966", "c6a0", "fb2e", "1af0", "805f", "b5f5",
    "48fa", "740b", "ddff", "7cb6", "5c87", "ea56", "1102", "51bb", "268d", "d72e",
    "398f", "7e87", "0a30", "6a64", "83f5", "a2b0", "ca1c", "8b37", "8f36", "e5b8",
    "6a42", "ccdc", "8076", "b120", "0d2e", "c45e", "6ee8", "3819", "469b", "0dbb",
    "a759", "152b", "5463", "c38f", "11bf", "4783", "12da", "ad81", "e090", "88c7",
    "fbc4", "4135", "bb39", "5df1", "7387", "32fa", "0c6a", "1b16", "b1c9", "6c2f",
    "b28d", "dd61", "10ba", "aa88", "b603", "6779", "2534", "6fe4", "3252", "c827",
    "f9e8", "2c92", "da3f", "1707", "f25a", "df98", "4e6d", "2e74", "3ae6", "014f",
    "d6de", "e076", "18bc", "c2d7", "cd45", "3d04", "a2d1", "ebda", "c592", "523d",
    "fef0", "31e0", "8a0f", "1689", "ea2c", "0721", "18e5", "6306", "9549", "6979",
    "0b7a", "00d6", "30c9", "1756", "681b", "6770", "0480", "a57c", "9ee3", "43e7",
    "ebc8", "8962", "3bd6", "1e8f", "077c", "71f5", "e4c4", "2a78", "76a7", "41be",
    "0f6d", "5776", "8621", "4b7f", "cb9a", "9176", "748f", "9840", "2540", "ac15",
    "8354", "7ee1", "cda1", "6ee4", "2392", "1212", "d2da", "b1bd", "206d", "0a16",
    "3181", "b7a6", "d2e0", "f9b5", "6be0", "6812", "b440", "a3c9", "a4b5", "75b4",
    "6194", "5bed", "591e", "7345", "d52d", "7874", "9feb", "b656", "5508", "59fb",
    "fbdd", "43e8", "2ec6", "dae1", "9d13", "0c98", "a495", "1d43", "5ac9", "017c",
    "df99", "6bfa", "de5c", "5c53", "c9ee", "51ae", "8740", "971d", "6d7f", "01f2",
    "dc2b", "a5c1", "a37d", "6ab6", "7a23", "e415", "77a0", "5d3d", "14c7", "d48b",
    "dfc0", "f5d3", "73ad", "a841", "b6f1", "01d1", "e515", "d6e0", "d6e8", "3282",
    "1808", "b1e1", "cef3", "d86b", "4cb2", "9192", "6a86", "1c62", "f83e", "57ab",
    "1704", "c6fa", "d96a", "1cd7", "773c", "f6f1", "2378", "2c5d", "c50a", "ec7c",
    "1f53", "f047", "8649", "d8c6", "4ff4", "883a", "34fe", "cd1a", "4e27", "02da",
    "9602", "c058", "4ad3", "e3cf", "6bc7", "bcbc", "2cc5", "9c77", "3ee3", "204f",
    "300c", "ebea", "ffc9", "493f", "e745", "9f78", "7bca", "6799", "924b", "f4f6",
    "c8fe", "a68e", "49cb", "5de5", "83d6", "d490", "a00a", "34fd", "f2a0", "f517",
    "141f", "0776", "1e3b", "163e", "6f9b", "d9eb", "a831", "f14c", "d572", "37a2",
    "567c", "3043", "ad72", "0d6d", "b4e4", "2ce9", "087f", "059e", "5d44", "c4d6",
    "8f6a", "60ae", "b8b8", "0314", "64fd", "d4d5", "953e", "4251", "9d95", "463b",
    "1b40", "7a58", "2ac7", "4004", "2824", "70ec", "b4fa", "9e87", "67f3", "d1ce",
    "bedb", "4096", "ec7f", "d59b", "a678", "8f55", "e9f3", "b53f", "9848", "765d",
    "19bc", "d26a", "9187", "7e7f", "5289", "7b86", "2919", "0b74", "67a6", "1686",
    "f7a6", "9a76", "a4cb", "37b8", "b187", "a374", "df4d", "f4f4", "f11f", "e5e7",
    "2a84", "60b9", "0c72", "5b40", "79af", "8335", "b45d", "1195", "1a7d", "adb9",
    "5800", "c448", "82e7", "2f9e", "0103", "03a4", "2813", "eddd", "e076", "7e2c",
    "6899", "9e05", "cb9c", "7b27", "1bdc", "16a7", "ae63", "3405", "db2d", "a102",
    "1184", "c63f", "c8d4", "8c33", "0134", "3e97", "266e", "45aa", "3995", "57e9",
    "8d8a", "d276", "4b29", "a6c7", "977c", "e1a2", "87d3", "c006", "dad9", "7150",
    "9eec", "dceb", "615a", "ccb0", "a19b", "9d68", "b92d", "5524", "d1f9", "696c",
    "c3a7", "e652", "a2d5", "6714", "077b", "049e", "82d3", "cc69", "1463", "14b8",
    "3bda", "f5e6", "ce59", "3169", "abe4", "155c", "d773", "2f8e", "75d7", "6e6d",
    "b089", "6e50", "22d4", "dbab", "a282", "41e0", "c587", "9307", "c8f2", "5b3e",
    "4f21", "bd39", "52f2", "feb6", "dfcd", "1b41", "f503", "3fe5", "119d", "a9b2",
    "a71f", "3dd7", "d9a8", "7b75", "8678", "62ab", "d9ab", "2999", "e027", "0e4c",
    "5028", "6e5b", "b1d1", "2a0b", "f37a", "cdab", "1293", "89bc", "aaa5", "f9f2",
    "3da1", "898c", "c56b", "b915", "4e90", "fe97", "90e7", "7786", "fa21", "e914",
    "107c", "dd3a", "43b0", "62db", "f4dd", "28e2", "0782", "6a88", "2154", "0e03",
    "07c2", "77e8", "0dda", "0841", "a514", "cc85", "ce12", "a9c8", "2fbc", "5dac",
    "3ae0", "abe9", "9590", "3256", "fc73", "29dd", "070e", "a3a0", "b2be", "5197",
    "4ee9", "30cf", "13a1", "17b8", "5d11", "fc55", "746d", "fa3d", "570d", "4b71",
    "bff9", "196c", "d64c", "4279", "1512", "8806", "7b63", "b8c3", "aba8", "c2b1",
    "4476", "a874", "f703", "f5d8", "ce38", "8d5a", "902d", "2cca", "e116", "fb2e",
    "dd61", "c76b", "39c1", "34ab", "64c7", "81f7", "f691", "6f82", "23d1", "924a",
    "40bc", "c6a7", "8dad", "9651", "4ec3", "96ee", "28ac", "acab", "7152", "2a82",
    "77b1", "3d3f", "31ca", "3e40", "debb", "dbdf", "f914", "cfd9", "25f4", "3ed8",
    "775e", "659c", "fa5b", "3468", "3c6f", "686a", "0878", "bfe2", "6958", "573f",
    "1f28", "72f3", "a350", "c61e", "bdc1", "e00e", "9156", "d2a8", "e987", "bdc0",
    "71b6", "8f27", "d278", "cdfd", "8147", "d5ca", "2ddc", "316d", "25b1", "51bd",
    "d5f2", "803e", "f0db", "31ad", "9ebb", "1fde", "fb27", "efb5", "0133", "3535",
    "dce8", "d0c2", "94f6", "95a9", "5e9d", "4833", "a941", "2d6a", "1d46", "089a",
    "d205", "3b6b", "278b", "b484", "feb3", "566c", "8076", "9733", "e2c9", "ef36",
    "ab91", "ddc8", "69d3", "7c92", "1160", "d4e2", "9c74", "0942", "1892", "39b9",
    "ea0c", "a647", "ce2d", "0e8e", "8ee8", "4b43", "1268", "256b", "926d", "04bd",
    "5e9a", "385e", "2b24", "a514", "c964", "5f4c", "709d", "2848", "52fa", "f1b0",
    "1d91", "120b", "58bd", "ae3a", "55d1", "ddf9", "1f63", "4529", "1390", "df19",
    "4c8b", "5549", "adde", "fa1a", "3c8d", "9051", "243d", "4d62", "57e8", "840d",
    "08db", "9221", "6f7c", "3acf", "8277", "b931", "f0e7", "8722", "6868", "a84e",
    "d136", "95ef", "6716", "2c5e", "2b2d", "e10c", "20b8", "9f17", "7003", "858a",
    "0734", "7895", "d39b", "f24f", "889b", "80df", "119d", "b84e", "48cc", "a0ad",
    "7920", "1356", "fa2d", "2611", "d9a5", "8e90", "32a0", "4a52", "c4b7", "3832",
    "3e11", "a40b", "1f6c", "3d65", "9f9d", "25ab", "fe54", "9c3b", "cad7", "2e9f",
    "89d4", "a08a", "9b25", "e260", "6110", "9643", "df41", "5651", "235d", "0e02",
    "2d93", "c0c5", "4b2d", "29de", "ec1d", "534a", "7931", "d83b", "5793", "7fac",
    "1b07", "0f18", "3a99", "d813", "15d6", "6c4a", "99ab", "d483", "4e15", "bf75",
    "b400", "756b", "894a", "2cc3", "b73e", "51aa", "1b0b", "1e5d", "d518", "a84d",
    "0326", "984c", "c45a", "e1cb", "c747", "b792", "e821", "a9e5", "2bca", "ed65",
    "58e7", "17bc", "05a3", "2428", "ca3b", "47a7", "22ef", "5379", "0e49", "3bf3",
    "aa73", "d50b", "5fa0", "bba9", "042a", "a2cb", "65e2", "a399", "d627", "1f4d",
    "df98", "06db", "072f", "433a", "2a6e", "f04d", "fa9d", "7448", "1840", "bfba",
    "2bce", "60eb", "293d", "cf20", "85d6", "da2d", "a279", "ec0d", "4ea1", "c4c6",
    "3aaf", "4dcf", "03bd", "a75b", "1cd9", "6e26", "6633", "da52", "a6f4", "dfb0",
    "5453", "8878", "7ebb", "7286", "d681", "0590", "181d", "8ebb", "9fbe", "ecf6",
    "ff92", "70aa", "e95d", "a785", "78f2", "80f8", "81ca", "6743", "ca59", "65c1",
    "9d8c", "bd99", "49e8", "3228", "7695", "e5b1", "260c", "d024", "9fb9", "53d4",
    "ecfc", "3ff8", "dda2", "25da", "2574", "5f6c", "43ac", "1dc7", "05df", "1b45",
    "44a8", "f3e6", "1e7b", "a181", "00c8", "86e5", "eba8", "b564", "35e4", "323e",
    "9cc2", "11e3", "0b4d", "67b9", "434b", "81fb", "18b2", "962e", "d0b2", "6c9c",
    "afcf", "ef27", "5411", "7326", "4464", "4cb4", "9702", "03b0", "92db", "de6f",
    "138b", "d755", "4363", "c84a", "3d0e", "0187", "deda", "626b", "2559", "8c16",
    "4286", "65e5", "b2a1", "003f", "b8f9", "62c1", "0430", "67cb", "5307", "53cc",
    "c318", "5915", "77c4", "9b08", "6118", "2540", "2dbf", "a206", "1bab", "ee46",
    "81b3", "abdc", "392b", "eb21", "fb9b", "5fe1", "4978", "c4f1", "45e0", "a871",
    "75ae", "ffed", "bf38", "3d01", "01d0", "fbe6", "683b", "8380", "6fdb", "689b",
    "f3a6", "4b17", "ec21", "b8d4", "a7d5", "5cc4", "798d", "ee6e", "e847", "9c04",
    "0d06", "b9f0", "23cd", "3a61", "2d67", "71a1", "38ab", "1c1f", "2a39", "66e6",
    "e97e", "32cf", "4ed7", "5e15", "2269", "8ba0", "a657", "06ab", "90a6", "f38d",
    "11cc", "aeae", "ed17", "6606", "a96d", "faf6", "5149", "4acf", "a3a2", "6a99",
    "c3b8", "16c4", "b53f", "dd4e", "9f00", "437f", "257e", "69a1", "7bc7", "11a6",
    "860a", "e525", "26da", "1ae9", "c0d1", "50a8", "089e", "b6f6", "0874", "7904",
    "f362", "3991", "2dc4", "c391", "59d4", "1ca5", "ecad", "07aa", "9f7a", "cf63",
    "b4c3", "0023", "f25f", "1d3a", "3534", "2339", "62fb", "b114", "4834", "54ff",
    "cd0f", "689e", "a491", "d3e7", "ca1a", "ab7a", "8796", "c046", "6472", "3264",
    "102b", "992d", "3789", "3aa5", "846c", "e34f", "b8e0", "00be", "9467", "1d12",
    "ce91", "4b67", "534f", "f935", "fd1f", "25c0", "8e7c", "721a", "168c", "50ce",
    "6cce", "5222", "cb85", "44a1", "e586", "d9ba", "50b9", "bfa8", "9f76", "1f81",
    "81a5", "62c2", "67a9", "b1b0", "e067", "9e5c", "2106", "8d81", "f293", "8d9e",
    "8370", "5b30", "24b6", "1e9c", "6c24", "40a4", "5600", "8bb6", "7009", "7ea1",
    "6b00", "57ac", "68e5", "9c8e", "85ed", "09cb", "dbf1", "9962", "2f0c", "2b6e",
    "b332", "69be", "9a89", "47cc", "2c74", "170b", "ade3", "064a", "1884", "9e86",
    "5ff3", "7d6e", "7e85", "b1d9", "c1d1", "0420", "452f", "5d3b", "914c", "8bac",
    "ec82", "be1a", "aaa2", "1a20", "4606", "d2e4", "9480", "341e", "df3c", "44a1",
    "ed90", "40d0", "4262", "2cef", "0b5f", "24e2", "6012", "1a0a", "1471", "0b6e",
    "40bb", "2873", "08e2", "537a", "ed36", "a475", "c8ba", "5f0f", "a211", "db43",
    "9af1", "8fac", "41f3", "4cf4", "678e", "937f", "0313", "09bf", "6d04", "9af5",
    "b293", "f572", "0ff2", "5d19", "7e98", "73af", "9bf7", "e47f", "43f3", "814e",
    "19ae", "7899", "902e", "4039", "cf58", "de0b", "bc92", "a8cd", "6d28", "952d",
    "eab1", "74fa", "6ff3", "62f9", "59f7", "b9ab", "39e6", "25a4", "ea7a", "ca15",
    "bcfc", "3fb6", "dc93", "3de8", "a086", "58d8", "cd3c", "ac54", "b253", "f5a7",
    "de7c", "da79", "c412", "9d34", "64e4", "0438", "4d49", "cec5", "14e9", "5624",
    "9a06", "3351", "7bff", "283b", "aae8", "e37c", "d8d1", "217d", "0794", "99d6",
    "1a2d", "9dc0", "4f64", "ed6e", "b882", "6d08", "bcc3", "7eec", "81f7", "6daf",
    "64ec", "dd60", "6a61", "041e", "6aa2", "83e7", "b48b", "d026", "d817", "3bb5",
    "394d", "cacc", "dc6a", "8199", "bb05", "12f3", "ca39", "220d", "954f", "fc80",
    "68ff", "c295", "bb16", "c802", "3d4c", "28a6", "6182", "a525", "e58b", "94ae",
    "d70c", "3152", "0433", "7bc6", "8545", "83e7", "493a", "0b52", "b4c6", "3125",
    "303b", "6d81", "bab7", "5b3c", "7b50", "4fd7", "cc6a", "e32d", "a326", "5b27",
    "0263", "80ae", "8ccb", "1685", "5f60", "8915", "6ee5", "14a0", "b4ff", "ddfc",
    "1ddd", "5d76", "77fc", "b35b", "6037", "f9d2", "fcb7", "e1f5", "7f5c", "74ea",
    "89fe", "5666", "043a", "6506", "21f8", "9d33", "9e78", "849a", "456f", "fad8",
    "859f", "aa2c", "6850", "98f0", "f47a", "5679", "2ea2", "0328", "e916", "57f1",
    "c41f", "5e7a", "8b03", "5497", "4bff", "660a", "8446", "b45b", "5cc4", "6c90",
    "f106", "7b78", "2c2f", "a38a", "ac19", "07c4", "282e", "fac6", "3c3a", "864b",
    "4086", "b39b", "5612", "2dca", "8c6a", "c551", "7a0f", "b9dc", "7829", "5258",
    "e20a", "d962", "2a4a", "049b", "9d5b", "4b03", "3905", "d615", "995e", "8e75",
    "0b09", "1a34", "280d", "79f4", "da75", "6475", "523a", "99d5", "92ac", "146d",
    "bd0f", "1e4f", "97c9", "6b55", "feda", "7b83", "97a3", "5557", "a17e", "2cea",
    "c6e4", "310c", "9342", "005d", "b0c0", "e9ca", "29d4", "cf32", "59c0", "ccb2",
    "d838", "19b6", "4a03", "05c5", "a46e", "2028", "7ee8", "834f", "3421", "eb51",
    "5f73", "38f9", "793e", "692c", "9d37", "e83e", "cc6c", "52d7", "8b64", "1022",
    "5b8f", "deaa", "6bb1", "8c02", "009e", "b9db", "1ccc", "1a16", "0d06", "4a83",
    "0084", "91ea", "b4bc", "c0cc", "efa5", "750f", "5541", "9ede", "01c9", "e062",
    "ee95", "a6fd", "33cb", "86bf", "8f3b", "174f", "ff60", "9a21", "47be", "c2b9",
    "f64e", "c8c4", "a4ee", "36a9", "c344", "c1c5", "e74e", "d930", "ffac", "7222",
    "a8d4", "5197", "78c3", "cfef", "3f20", "6f0f", "0740", "f33e", "b1a2", "776d",
    "d5ae", "dfb6", "70dd", "272c", "b9e8", "4fc5", "953a", "2fbc", "242b", "7b35",
    "a9dc", "affb", "703e", "3e66", "de56", "e9a3", "188d", "a483", "cf22", "2a38",
    "9e81", "6746", "88ff", "8fa4", "992f", "74b7", "e3ed", "1634", "7348", "db10",
    "e920", "5bd0", "aadd", "cca2", "d1c9", "21f2", "7cee", "4ef2", "f246", "52ed",
    "068e", "cf6d", "542d", "1fea", "5612", "1aba", "d577", "bf26", "386c", "2d2a",
    "487b", "74a7", "548d", "2ff1", "5ba9", "d194", "def3", "e6b4", "d5e6", "b8cf",
    "f0e5", "3453", "0a3f", "16f1", "22de", "34e6", "beed", "256e", "eecc", "97b2",
    "215e", "09d1", "22ed", "17c7", "db10", "9e81", "78df", "f567", "2b51", "e6f2",
    "f532", "ca5d", "8ded", "7de5", "845e", "7747", "0d77", "7a0e", "6875", "82b7",
    "14fd", "db56", "a9d2", "bfdb", "d984", "49f3", "62ec", "6f0c", "733a", "c8e3",
    "0cc5", "8ab4", "f089", "9957", "52f0", "ab9c", "620e", "7af9", "6d70", "bb34",
    "279d", "d826", "bf57", "9e8f", "5f2b", "5bff", "07fc", "9392", "b0e1", "e6e6",
    "a8ef", "ac0d", "f787", "7753", "1dd0", "a1b2", "7d52", "124a", "33eb", "e02b",
    "7866", "2183", "ca87", "f825", "50b1", "65fe", "98db", "43a8", "02a6", "5204",
    "735d", "7673", "4d0a", "0a1a", "336f", "3ae7", "3fdf", "1cf4", "2c6a", "1b85",
    "41f8", "5a12", "a02c", "0f58", "56fa", "c5ab", "a9f6", "a34b", "e476", "a16a",
    "f904", "b9a3", "5c68", "c7c1", "ce53", "6fc1", "7967", "666e", "d1d9", "cb7a",
    "8354", "a150", "061c", "7a5a", "a1b6", "63ce", "3220", "d396", "7c48", "9053",
    "9120", "f480", "dfd5", "aa57", "ddf7", "18bd", "607e", "f5df", "6b58", "0df4",
    "1215", "116d", "ce7a", "6ce1", "15bf", "4396", "d167", "d805", "5e60", "4866",
    "b5be", "8c66", "978d", "b65e", "2e22", "6688", "ebe0", "065e", "5a99", "814e",
    "e25d", "bfdd", "7a5d", "7a43", "2695", "b80f", "4306", "af78", "03d4", "45f5",
    "f9f9", "ea3f", "ec96", "0093", "379c", "d0df", "e7d2", "0a05", "a91a", "8095",
    "a974", "77c4", "db2d", "eebc", "f467", "636a", "58ea", "6418", "6c36", "72c8",
    "4b64", "9a6b", "462a", "db91", "7fe1", "a39d", "23da", "2179", "edf4", "cfb1",
    "be35", "aa42", "9613", "6ea2", "94fc", "4784", "be94", "f381", "cba2", "49d7",
    "ad6b", "95c8", "ef61", "a8fb", "120c", "355e", "d783", "c6e0", "7740", "2ae5",
    "ba9d", "f078", "aedd", "6866", "fffc", "6a66", "7ef0", "c63d", "d63e", "f057",
    "5e40", "4cc4", "5dfc", "2163", "177b", "ff0c", "3017", "de9c", "370f", "55df",
    "1cd8", "44b5", "c467", "f529", "c66e", "bd08", "b239", "196c", "4029", "9492",
    "6c66", "308b", "c9ea", "26c4", "60d7", "e2cc", "680b", "cd04", "ca01", "4c53",
    "6490", "5183", "045e", "a8c4", "aa96", "7900", "3f9d", "c1b6", "5212", "5b44",
    "bf98", "108b", "d583", "353f", "c946", "afd3", "f1b1", "873a", "bedb", "2c56",
    "6214", "a4f5", "dac6", "a50c", "edfd", "a892", "c29d", "fc3f", "505a", "75f0",
    "b13e", "dae3", "505b", "a521", "1722", "5ac4", "67c8", "3857", "9a59", "49fd",
    "e287", "fb95", "aa9d", "e8ce", "60cb", "ded5", "4570", "e9d8", "40d5", "d6d1",
    "e539", "eb6a", "b617", "0b4b", "c306", "f9ce", "bd8a", "1040", "d4f9", "cccb",
    "70d7", "c748", "a4dd", "c298", "a8fd", "db89", "eeeb", "82ee", "c339", "a854",
    "02a3", "9bec", "7104", "a5b4", "c475", "befd", "65c8", "ca25", "4e9e", "0d78",
    "0e5c", "e44d", "43dd", "958f", "7555", "097e", "1327", "03a4", "7fd8", "54a6",
    "5eb5", "5e1d", "d781", "851c", "6495", "53df", "6648", "5b46", "7614", "e931",
    "6ff3", "4a4a", "fd87", "b860", "4775", "3554", "eb74", "01f4", "284b", "9584",
    "c9b6", "f24c", "9cd6", "3585", "ba7c", "49d1", "ba47", "f8c5", "7cd7", "7abf",
    "d2f4", "b566", "3587", "c951", "b182", "d1d5", "b5ea", "9289", "0736", "9b35",
    "ebbd", "4bfe", "8a25", "8a31", "f787", "fbfb", "1df5", "ccbc", "b4d9", "6bc9",
    "131f", "d3b0", "aace", "7396", "65c3", "3900", "2a9d", "b2e0", "d1aa", "2207",
    "d050", "620f", "72d1", "6434", "e354", "8273", "6415", "100b", "ef4a", "a00c",
    "fa40", "7ec4", "f15a", "2c5c", "7183", "506d", "563e", "3b7c", "48e5", "18d6",
    "aef9", "27de", "db7b", "40ac", "601f", "23d2", "ab9f", "ec23", "279a", "2946",
    "deb4", "539c", "aa09", "4aff", "b973", "e93b", "8bd4", "06c8", "81e7", "ce7c",
    "f781", "f6c4", "79ce", "e82e", "660f", "d0bf", "fd5f", "1a71", "4a10", "0af3",
    "bdea", "01ee", "d21b", "59bb", "465b", "4b8b", "c6f5", "57b3", "4428", "c86d",
    "ad35", "a9eb", "16d8", "4661", "4580", "8c7e", "31d4", "9f49", "450b", "8e41",
    "efb1", "32f3", "1bdc", "e358", "c1a8", "ab84", "e450", "39fc", "d0a5", "5864",
    "87cf", "e495", "5fc6", "0133", "45bf", "0359", "c3d8", "51b7", "b361", "1040",
    "9bcf", "99f1", "8c33", "71d8", "9b03", "b59a", "e963", "028d", "3ec9", "050c",
    "d967", "3ad2", "8e4b", "f1b0", "e111", "e0ff", "b16e", "c254", "4f7a", "7dbb",
    "efe1", "6756", "0221", "30f8", "e804", "2876", "ed7c", "bfa2", "4896", "6a14",
    "af5f", "3ab1", "4e96", "c25f", "a696", "091b", "9c89", "d73e", "2347", "7932",
    "a12d", "2faa", "2674", "4cc7", "34b0", "0a04", "1667", "d832", "ae18", "9df1",
    "ae95", "1432", "3bb1", "f6dc", "6f16", "5c55", "99db", "bace", "13f9", "a1d2",
    "1bc6", "9948", "d78d", "1fce", "1004", "0017", "aa46", "6fb4", "9d04", "5dd2",
    "e2f3", "eb64", "3550", "b340", "a0a8", "882c", "6ca1", "9fcd", "488c", "9ccb",
    "6052", "777a", "cd2d", "42b7", "de0c", "6d0e", "0fb3", "0e1e", "4227", "0e6c",
    "9cff", "eb44", "d214", "40f3", "23bf", "c62f", "06a4", "c5ca", "bf0b", "51fa",
    "7a44", "d3f0", "c7a1", "28a8", "3c78", "ae68", "94ee", "cefa", "468a", "68fb",
    "57d2", "85b1", "c9e7", "f873", "cb75", "91b0", "141a", "06b8", "ca92", "8257",
    "75bd", "8f2e", "c1ac", "5cd8", "0ebb", "5915", "75aa", "e900", "480a", "1740",
    "b9e0", "1fc7", "86e4", "41a6", "a3c8", "21cf", "6ced", "3f17", "a7bd", "d91b",
    "1e02", "02b0", "3a82", "896c", "865a", "e45a", "6740", "7fa3", "1a33", "6827",
    "b435", "cbcc", "6395", "0856", "47cc", "4745", "6bf4", "7c2c", "a75e", "3cb6",
    "1533", "5dc4", "9d73", "0164", "8afb", "78af", "5eb1", "cf76", "42b7", "7c7d",
    "d3d2", "68e2", "688b", "c98d", "742f", "77ea", "7111", "34d6", "78c9", "e951",
    "ba75", "e14a", "f564", "3498", "8d72", "493d", "ce0e", "7e47", "5d52", "41fc",
    "1a94", "68c3", "2c0c", "52c0", "0aea", "f007", "e4ce", "c85f", "8fec", "7464",
    "16c7", "8fad", "d263", "8bfd", "169e", "ffd0", "6b3a", "e8c7", "b124", "3b61",
    "7712", "9982", "ff40", "09c1", "3559", "c6f8", "a292", "7ffb", "e584", "6737",
    "172e", "3c6f", "6420", "b82a", "dae1", "ea5a", "71c0", "4982", "8671", "3176",
    "f770", "b2a6", "7336", "cf9d", "fcae", "1c80", "5451", "d500", "b7be", "f09d",
    "0c88", "580b", "cbb3", "2fba", "dd0c", "e0c8", "2aa6", "4003", "9aca", "fe07",
    "9ddf", "a87d", "4952", "7a5b", "6a64", "f2ec", "ff1d", "e502", "1997", "25d6",
    "da22", "12e0", "10e9", "981f", "721b", "87d3", "9aab", "a79f", "b742", "3e02",
    "b19a", "4dee", "78b8", "125f", "6995", "c8ff", "5b78", "f33a", "82b6", "5ee3",
    "f64e", "5637", "8292", "1214", "0a82", "8b79", "fb9a", "e0ee", "ff01", "2d17",
    "a3a0", "6ca7", "b3d6", "c29e", "934c", "4940", "78d2", "08b4", "604e", "2a37",
    "ed26", "cc32", "42ab", "f1ac", "c6eb", "3a27", "ff9f", "840d", "d474", "f200",
    "774c", "93fd", "e828", "d47e", "5501", "0f53", "9099", "cc05", "2263", "1fca",
    "39bc", "6791", "6384", "b0df", "459e", "1f4a", "600d", "30ed", "45d2", "3874",
    "3cb7", "85a0", "b924", "d6b6", "67de", "d821", "65c8", "7545", "e809", "4336",
    "69b1", "3f9c", "6f11", "214b", "a166", "c53b", "5c60", "4784", "adbd", "3309",
    "bdba", "bcf6", "44b7", "61e9", "c597", "b18f", "0892", "cf2d", "e30f", "75e3",
    "8520", "9309", "0392", "9391", "011d", "4e79", "6a31", "2765", "e589", "6163",
    "3e09", "e733", "1134", "3fed", "86bb", "9377", "b66b", "4143", "812b", "da60",
    "ece3", "7277", "f851", "3c3c", "8be6", "d3f4", "30ec", "22a2", "e7a7", "28de",
    "8969", "7fed", "bf74", "550c", "522c", "88a8", "8c5a", "efcd", "7651", "82ac",
    "b890", "6f67", "5ade", "d134", "c638", "f4c8", "c88c", "6310", "4ef7", "c326",
    "c0b2", "6330", "9689", "4307", "0fab", "023f", "a969", "551a", "fadf", "a757",
    "58a8", "7f14", "8e32", "4af9", "f39c", "29d4", "f7c4", "fdbf", "7267", "3558",
    "86e6", "56b1", "67d5", "e911", "caaa", "7e43", "6e3f", "e071", "98bd", "6126",
    "b953", "db6d", "1c18", "477f", "861c", "cc24", "a29c", "09ed", "3c15", "7e35",
    "9a0d", "f1ba", "57d6", "aea2", "044e", "3289", "ba44", "2e6b", "c1f8", "449b",
    "3306", "7290", "5b7b", "cfe3", "a410", "9a58", "70e9", "9899", "520f", "2315",
    "e867", "ff89", "2f5a", "5aa5", "dbb1", "2885", "c915", "b7b8", "0afd", "f477",
    "35d7", "74b8", "83c8", "1b3b", "05df", "a115", "eb97", "3e02", "5718", "eb58",
    "6b2c", "c123", "cb8d", "37ba", "14e6", "5231", "7ec7", "eee1", "3f59", "954c",
    "5250", "a073", "7491", "5f19", "8b6d", "17f6", "3afd", "75b2", "9ab3", "7f82",
    "b46a", "9880", "0157", "d4f0", "9157", "0b16", "e28a", "fd6f", "6f5f", "940a",
    "e843", "b30f", "4b65", "3ca2", "e289", "25b7", "fa16", "f237", "87ff", "6d01",
    "2790", "0a73", "9098", "07a2", "0ed9", "0f72", "0ded", "59a4", "9629", "0690",
    "7f81", "1220", "66bc", "12ae", "60d8", "bcfd", "94a0", "f8a0", "e464", "6c11",
    "5d9b", "dd89", "0a58", "ac27", "d6df", "6ae0", "f628", "f5a6", "25a5", "a556",
    "3507", "5175", "57e4", "339a", "36ca", "63f9", "2d57", "eee1", "4759", "2139",
    "cc3e", "c142", "1d2e", "3d10", "5959", "8ab4", "e187", "24db", "bfc5", "b96b",
    "055d", "ddef", "8cdb", "cae0", "f001", "05db", "52e0", "db20", "3a33", "9a13",
    "75f5", "3cb9", "a1ea", "3f5f", "3aa5", "f50c", "8587", "ead9", "62c6", "d22f",
    "6413", "0716", "9ca5", "bfc2", "9191", "d933", "40ea", "4f4a", "eea0", "1f44",
    "8456", "e096", "f3e8", "e2d7", "4228", "acc4", "1ea6", "da67", "a129", "e52b",
    "8092", "78a0", "dfba", "f1c3", "534b", "7f50", "e62c", "de52", "aa78", "5440",
    "90ff", "9f75", "365d", "7e67", "9f7c", "5f57", "5f83", "a277", "fe3f", "c0bd",
    "4573", "fd5c", "88a3", "75bb", "9e86", "94ee", "f228", "444f", "4f5e", "ddad",
    "c2c6", "a761", "c56d", "a9f5", "3d77", "91b2", "cd5e", "8a5a", "9ab3", "9671",
    "3569", "43ed", "fc55", "fa66", "bcba", "f7b2", "d238", "da78", "7951", "7429",
    "362d", "7e5f", "b054", "4aa9", "d8ec", "4a5e", "9440", "9179", "9781", "f514",
    "2797", "4258", "e3bc", "de11", "89a3", "e6fe", "f067", "42b5", "a424", "2333",
    "6521", "1a53", "07a9", "9af2", "c16d", "e918", "6bc6", "565f", "c75c", "803f",
    "49fb", "138d", "efad", "25f4", "b596", "3cf4", "7cf5", "5dad", "a31f", "4dea",
    "4c2a", "ce61", "d4d2", "c95d", "4c23", "9bb6", "a204", "2a81", "fdef", "9e7a",
    "f6ef", "a0a1", "14e1", "9d12", "8efd", "0d06", "7639", "e122", "dcf1", "10a7",
    "14cd", "eb29", "6494", "8782", "8f6d", "a314", "bbec", "9602", "7d73", "dc1b",
    "e82c", "7310", "8925", "eef9", "334f", "6c28", "90f5", "3114", "7422", "efd4",
    "a35a", "9bdc", "7e80", "025b", "7a13", "131d", "c504", "c095", "ebdf", "cc14",
    "e4bd", "54ba", "6802", "9fca", "a252", "570c", "c36a", "f9ef", "6acb", "1881",
    "a383", "3d67", "b81c", "d940", "292b", "5738", "e533", "e224", "a0ef", "1c02",
    "102e", "a400", "931d", "937d", "c4e9", "f21b", "3a5d", "dbd6", "4500", "8ad6",
    "161e", "6389", "ea80", "bc71", "1bab", "fddc", "bcc9", "d985", "9d31", "bd09",
    "e96a", "bfed", "77b9", "98ee", "0743", "5351", "894d", "700d", "304f", "7b60",
    "d7f7", "bd98", "26b7", "313b", "a353", "0ae6", "27bf", "fcb9", "8064", "00ac",
    "169a", "04b5", "6236", "c48c", "f835", "ecd4", "3f9a", "097c", "a677", "7351",
    "b94a", "4a63", "b6fa", "b633", "e040", "8794", "37c4", "f309", "299c", "8e46",
    "8f9e", "54b6", "ed53", "2e75", "d720", "9915", "1c74", "5fd9", "7ce9", "65e6",
    "35c7", "bddd", "aa0c", "9c41", "70cd", "28cf", "246a", "98ca", "2d3b", "78b7",
    "1efb", "48ef", "8b8d", "f4b4", "a046", "06b2", "be86", "bc6a", "c3b9", "ce83",
    "6e00", "4ee3", "ca60", "4759", "1aab", "15c5", "7f0e", "9c89", "aa6c", "e604",
    "3de3", "ff17", "9722", "4787", "9945", "0dea", "ce41", "f635", "8c1c", "d6d3",
    "fcf5", "7f2a", "7e2c", "ce50", "39f9", "14f7", "19ba", "82ec", "4c90", "407b",
    "f2b2", "7f8d", "a010", "7313", "dfb7", "3bfe", "ef51", "8f8d", "6a76", "6a82",
    "755b", "9cb8", "9dbe", "4a8d", "a613", "a669", "d12f", "b360", "a214", "e02a",
    "7187", "458f", "4536", "a6df", "0a31", "8eec", "ea96", "1bf5", "97f2", "aae4",
    "06a9", "599a", "8adb", "d42f", "039c", "bf7e", "5fc0", "6be4", "fbf7", "9656",
    "e417", "e94f", "b3f9", "2fd6", "d035", "3ecf", "4ff7", "d964", "6fcf", "cdcb",
    "2851", "a8c9", "ef7d", "3772", "81e5", "7256", "0d8a", "a530", "7000", "8585",
    "dd71", "937c", "5c15", "1772", "abfd", "0648", "ce44", "9309", "6cd0", "0863",
    "d6ff", "783d", "ef15", "c82c", "cd47", "6157", "167c", "c25a", "0471", "641c",
    "55ab", "9b00", "af84", "f49a", "aafe", "0254", "3da8", "2fa4", "9d9d", "8de7",
    "cebd", "f335", "cd50", "29f0", "261c", "842a", "a0af", "50ba", "628b", "bb44",
    "0aa8", "42a0", "e1df", "400d", "1f42", "5540", "84f6", "2d36", "fcd2", "2ead",
    "b401", "d3bc", "fe9f", "b422", "0bd7", "d031", "cb96", "c3d6", "0cb7", "149e",
    "8ca7", "bab0", "0192", "b65b", "aeea", "f27a", "aef8", "2627", "a873", "92c0",
    "bea8", "d3ce", "51fc", "4b0e", "4403", "502d", "b0e4", "a011", "95b0", "f1ce",
    "1b39", "3b33", "8b23", "55d3", "9bb6", "e570", "4523", "7e36", "5bbe", "88e8",
    "89f4", "b09f", "fdea", "f5cc", "fed9", "c649", "9201", "7292", "a55a", "3770",
    "a4a2", "0d61", "8391", "c00a", "7174", "dbe1", "3285", "a311", "814c", "9c3d",
    "5e0a", "93bc", "d6e7", "0cd5", "2009", "051f", "f338", "7d68", "22ba", "7bca",
    "2c7f", "6d92", "7696", "daa6", "91d5", "2ced", "8eb6", "b1ef", "516e", "c2d5",
    "11cb", "895e", "56ae", "4bcf", "d72f", "3686", "f459", "fa7b", "3554", "8737",
    "3a08", "3ae9", "f35c", "b7f8", "bb74", "6e0e", "52a7", "e5b5", "f052", "efc7",
    "3c28", "394d", "02f6", "29c8", "3165", "d73f", "57fd", "ba56", "fb20", "b38a",
    "5373", "1ec1", "bcf5", "80b8", "ec75", "155a", "06ec", "ff88", "52bb", "6fa6",
    "a060", "5e84", "9873", "9a09", "912a", "ac95", "74d1", "c08d", "292b", "bf52",
    "0c4d", "1013", "ba6e", "15c6", "5977", "51fc", "384e", "70b3", "eb38", "6620",
    "b105", "f719", "268b", "e3ce", "740b", "e91b", "3967", "bf7a", "d93f", "abc7",
    "847e", "d43d", "b549", "373b", "c0f4", "d323", "3891", "8e96", "23b0", "3a29",
    "b0c2", "1bac", "70d3", "494b", "fa34", "bc8e", "f691", "cf7e", "88d1", "a29c",
    "ea0a", "f309", "16b9", "299c", "7924", "2569", "c8c8", "9249", "57f6", "463f",
    "0643", "a2d9", "8cc7", "eea3", "9a04", "87e9", "de87", "48e3", "2463", "8d36",
    "fb69", "3bcc", "7c0d", "04ff", "2712", "ab6a", "de4c", "23d8", "c9c0", "e1e4",
    "7593", "31db", "14a3", "728e", "4cc6", "d877", "0672", "74b5", "9dd1", "0fd0",
    "1322", "cb9f", "005d", "0f1b", "2b26", "a5c4", "cb47", "f7d2", "f75c", "1459",
    "b301", "5566", "9526", "8e2e", "b224", "00cd", "d748", "baed", "507e", "408c",
    "6437", "f785", "2084", "192c", "35e9", "b4b7", "2931", "0da2", "4805", "af6d",
    "0916", "47fe", "e25f", "fe96", "a405", "660c", "0bd9", "a3bb", "3720", "284a",
    "65fa", "84e3", "7165", "17f3", "3c93", "ea5a", "9197", "c36e", "cbf3", "0aee",
    "61a2", "1c1b", "ff39", "d328", "15fe", "0e25", "5ca1", "d89a", "3160", "3483",
    "3649", "5f57", "760d", "c015", "8d11", "d5ad", "b54c", "3d93", "bb15", "15b7",
    "d407", "a246", "cd28", "43a0", "514b", "13f8", "2b87", "bbec", "b705", "1ffa",
    "16d5", "30d9", "906e", "fad9", "e89e", "aea5", "9a38", "04bb", "2c75", "c277",
    "5da8", "466e", "15ad", "00c2", "70dc", "a038", "cca8", "a424", "dd29", "d40a",
    "3a82", "944d", "c6f4", "3e52", "9903", "9d1b", "416c", "86c2", "82e0", "553e",
    "c55a", "185c", "ab2d", "cf08", "6e31", "bed0", "2534", "5330", "010d", "162f",
    "b6d9", "0ef8", "d783", "ad51", "451e", "762a", "4c23", "9f8a", "420b", "53e7",
    "3597", "06e4", "35bf", "3ce6", "a254", "edc0", "4c1b", "dfd9", "b5f2", "13b1",
    "f5a0", "b3be", "e16f", "c74d", "090f", "b7f3", "12f6", "0d23", "5206", "6606",
    "8a06", "e695", "fdea", "795a", "c43a", "0815", "eb15", "c92c", "c609", "164f",
    "8a35", "2c00", "d2ef", "c510", "f755", "6cb5", "d824", "f24b", "e735", "d7d5",
    "3c2f", "a3e9", "a8c1", "7948", "83be", "1a56", "e3d5", "e11e", "da54", "3e31",
    "c35c", "8f05", "59d3", "9d6b", "2cbe", "b944", "3207", "2aa1", "f3a0", "e18e",
    "154f", "d01d", "9d7b", "6eb6", "0ece", "608a", "153e", "7a57", "c75c", "f849",
    "c5da", "f75a", "512f", "c15f", "8ef1", "80fe", "245a", "4b5e", "c143", "37be",
    "9923", "42dc", "b41a", "a22d", "ba84", "cba3", "888c", "9407", "2ca3", "b650",
    "8261", "39cc", "dbde", "b127", "b0e1", "c23b", "84e6", "accf", "00b5", "5cbf",
    "d092", "be18", "289f", "dcc4", "88a6", "2b2a", "656c", "6291", "b145", "42c1",
    "6a96", "f56c", "10c5", "4be4", "2b54", "b680", "340f", "6729", "65f6", "7c09",
    "0256", "9b0b", "d5db", "8edc", "124b", "635e", "39a2", "d96d", "6df7", "1ab9",
    "a88b", "fed2", "5b0a", "17fd", "a7bb", "b089", "b0f0", "c96c", "e012", "7931",
    "5944", "6e40", "a841", "d73b", "02c0", "a79b", "dfde", "dc14", "32ec", "261b",
    "fe86", "cdc2", "c536", "31be", "6e6c", "4a68", "99a5", "80c0", "267f", "85ff",
    "7d0f", "4033", "f6a4", "5e5b", "ac44", "f05c", "d29d", "c13c", "bfe8", "26ef",
    "b3d9", "f873", "f588", "ed32", "3339", "1878", "3317", "ab23", "8dda", "c065",
    "a96d", "83e5", "e496", "7bbb", "569e", "990c", "e676", "d15d", "adf6", "cb51",
    "3c43", "b814", "9cc3", "9068", "2c52", "3c79", "f7ba", "013d", "7dde", "a0ad",
    "ef8e", "cba7", "cf64", "79d3", "9f25", "1459", "eeea", "d9a9", "1aff", "8478",
    "d34a", "23be", "e5c5", "1a55", "e0d0", "2636", "8b90", "b146", "054d", "5329",
    "ad75", "8616", "c8a3", "0823", "b430", "ff7b", "8560", "b02f", "1433", "af88",
    "c833", "22f1", "86b6", "df53", "f9af", "4e73", "4075", "7507", "ba90", "d0c5",
    "018d", "53a7", "d9d7", "bb06", "b65d", "ed1b", "b80a", "23a7", "505a", "fe38",
    "0cd5", "9d3a", "5e03", "6c68", "d203", "deba", "41e5", "7ac9", "ce1c", "522d",
    "1dd8", "3ea0", "10f7", "be2d", "ce5a", "415f", "4aba", "ab1f", "1a2d", "a1f4",
    "02b0", "a085", "0004", "6d91", "3aea", "dbb1", "1966", "4dd2", "3eb4", "6665",
    "ae86", "5e85", "f502", "aaa1", "544c", "43bd", "8929", "a6a6", "c0ed", "d98e",
    "5e6e", "bdb9", "a5c0", "1683", "2c82", "e3bb", "a3e7", "7f0a", "edba", "f58c",
    "d8b5", "864e", "c6bb", "da83", "fa9d", "f32b", "4b5e", "d007", "c387", "120b",
    "1643", "1c66", "6b60", "871a", "e96e", "9ab7", "aebb", "d907", "b575", "03de",
    "de77", "1c41", "5af0", "d200", "b586", "e069", "224e", "0503", "f602", "8854",
    "e736", "2326", "1fd4", "f16d", "c998", "41c2", "419a", "c9e8", "f0dc", "ccc5",
    "6ee8", "b932", "1b51", "f7f2", "5086", "5539", "b23a", "e1a8", "37ad", "2f4b",
    "9f32", "e60b", "d4d4", "4868", "a34d", "5ca4", "2f66", "4a62", "bff3", "6f6b",
    "614f", "7d93", "2430", "2957", "8a89", "5bd9", "441c", "6fd4", "6856", "9d44",
    "82ec", "05f0", "a6e4", "7ee8", "937c", "00ae", "32a3", "c4c4", "a042", "718a",
    "3a98", "c3e3", "5293", "5b23", "046f", "d5e0", "c54c", "9393", "daaf", "7de5",
    "8525", "55fb", "1eda", "172e", "4708", "2b39", "f632", "a550", "92c5", "3732",
    "10ef", "779e", "77f8", "a8f6", "5c6b", "9c33", "dda7", "b401", "5a93", "dc0d",
    "e1b2", "2c73", "206c", "ad32", "39de", "3102", "2f2f", "6ec4", "2b86", "1b46",
    "32ce", "7ad7", "2ada", "8857", "d799", "5cf9", "6c60", "a3bb", "3436", "b6a7",
    "c42f", "8b0f", "f581", "0ddc", "24f0", "0c44", "0d82", "bb27", "badd", "e5ce",
    "d1df", "f5b9", "42cf", "5e55", "9cce", "9bf0", "0470", "3b65", "a23a", "7e1a",
    "2e5c", "a8d3", "3c82", "2119", "aed2", "2c5d", "1987", "796c", "c71c", "7da1",
    "cc58", "06d2", "432c", "e79b", "e4ac", "08c1", "93bc", "2a3d", "8dcf", "50ec",
    "c31b", "b21a", "a9d8", "7347", "2c9e", "9ea2", "6d23", "8a11", "4025", "c8b5",
    "21e1", "8f98", "be37", "76f0", "5704", "b950", "f0fd", "b86a", "3299", "0cd2",
    "f71c", "f254", "0022", "07ef", "d389", "c73a", "9e05", "fb58", "d3ab", "5935",
    "03d7", "c3f8", "da66", "2c66", "c8db", "c791", "7933", "459f", "a58a", "1c8a",
    "909b", "6e2b", "46fd", "2b12", "f969", "a62b", "c3a0", "d238", "b857", "963a",
    "c5da", "bc78", "3751", "52d0", "6c6e", "5886", "6627", "32d0", "b551", "f976",
    "ca5f", "8eb1", "ea12", "e6a2", "004a", "1aec", "c418", "7712", "af09", "7b1c",
    "e671", "5f1a", "7b86", "e92e", "a873", "8c31", "2800", "a918", "cf07", "c3e9",
    "e199", "ad28", "0025", "c360", "213c", "ef38", "c9a8", "b481", "4e22", "8d18",
    "2adc", "43f3", "95e6", "19ae", "115f", "eb6b", "8cdd", "d13f", "92aa", "1b9f",
    "8289", "c73e", "233b", "fa87", "b784", "7973", "89a4", "c6bd", "8450", "7044",
    "2dac", "c1d8", "613d", "e758", "81ef", "7787", "e66f", "6e43", "8544", "67c1",
    "abe7", "791b", "2cf3", "b437", "0238", "f3e1", "0d53", "261d", "45af", "acba",
    "4159", "5381", "0e80", "2890", "f8c7", "ed7d", "4bf9", "4811", "47d8", "bb69",
    "2a26", "c59b", "fd06", "3b1b", "868a", "c771", "cae0", "5c49", "501c", "d8de",
    "83df", "60ad", "3cd2", "6c9f", "57af", "711f", "c437", "41b9", "b90f", "b571",
    "8bb4", "7a14", "d46d", "4f4e", "1459", "ac07", "72cd", "d5bd", "1b93", "aaff",
    "72d9", "8af7", "5b08", "9239", "cbbb", "1f59", "b92b", "48c3", "ded3", "9de7",
    "4595", "6ddd", "a059", "0388", "dc3c", "6ebb", "4079", "b621", "2df4", "b964",
    "a099", "b958", "3702", "4b47", "cc99", "26b2", "7913", "2c1e", "56ae", "1a98",
    "0c1a", "fd30", "8138", "bc64", "f53b", "87fb", "963e", "a74f", "1e25", "1edc",
    "a2be", "d2f3", "2963", "6f55", "79d0", "a369", "f5cb", "62e4", "8612", "37bf",
    "77dd", "ed9a", "5f08", "5acd", "1acd", "75bc", "1d22", "9fca", "ea96", "d4b8",
    "8c93", "e4cb", "883a", "51e0", "7543", "a9bf", "83df", "ded8", "6c96", "e8eb",
    "2b13", "4d17", "1bbb", "a774", "63e3", "0dfe", "ec81", "a42d", "ea20", "822d",
    "d861", "48ad", "6aab", "dc91", "3255", "5aa9", "56fb", "edba", "16fb", "a8fe",
    "b605", "cd9c", "ac74", "b674", "262d", "4e2a", "5962", "2219", "5a1a", "5af7",
    "e85c", "d6ea", "52d6", "ef68", "5b59", "ac54", "e4d4", "f6be", "79e2", "382d",
    "175f", "30b2", "551e", "33f9", "c725", "dafd", "1df8", "0c31", "19bc", "744e",
    "a9a3", "03eb", "17f1", "aa91", "260e", "4792", "cd4f", "fdf1", "5112", "903a",
    "367a", "6b18", "1a62", "0d0a", "4f7f", "52c3", "2ebf", "8f7f", "0e39", "e421",
    "da26", "2646", "acbe", "cbdd", "e734", "40e1", "f89d", "9790", "d0cb", "956a",
    "1c97", "5332", "9fbd", "eeed", "eb05", "0df1", "d536", "67a2", "71ab", "6f3e",
    "3fa5", "8af9", "d628", "2f22", "5511", "4f02", "b6fb", "4dce", "7079", "2df5",
    "b449", "4620", "8cd8", "0a26", "1d2c", "e1ab", "4250", "145e", "dbec", "7eaa",
    "02b5", "c76a", "15dd", "ef7b", "42ec", "c966", "8d82", "b854", "8b98", "acf0",
    "7bf9", "7bea", "c9c4", "3e43", "cadf", "1ac3", "a29a", "b4f8", "2374", "6f33",
    "2d44", "21e1", "9130", "b536", "d281", "b25f", "7256", "0e76", "cb45", "e696",
    "0c54", "8901", "5b11", "9d3c", "d473", "2507", "cf11", "2036", "dc70", "722c",
    "7e9e", "81c3", "915c", "f5f6", "5e73", "2402", "bb71", "5800", "1d4d", "c73b",
    "28b2", "8a7c", "8703", "ae68", "d608", "319d", "e5d6", "85d4", "1f8f", "ddbc",
    "6978", "18cb", "a989", "8ff1", "212f", "6386", "ad9f", "a266", "3347", "1623",
    "8f61", "a4c8", "6074", "6fb4", "8a86", "58dc", "eb94", "d76e", "386e", "e358",
    "dddd", "bfce", "93b0", "3aec", "d5a2", "6bf5", "9112", "5328", "69f9", "3938",
    "ab31", "82b3", "4272", "e693", "57d8", "a968", "cc85", "d932", "f864", "ca30",
    "4c28", "27c5", "f527", "39f5", "1fa5", "9b14", "47d7", "c54d", "d87b", "9703",
    "ae3c", "92d7", "c335", "e765", "0ab6", "587e", "ca66", "9d83", "d033", "81e9",
    "525d", "a901", "443a", "04d0", "ecd4", "a54e", "fad5", "2af4", "2096", "2387",
    "0d60", "814e", "d655", "45bd", "7ed6", "2d18", "41a9", "22b8", "5fb1", "5dfa",
    "7c11", "2cec", "e3af", "a306", "a15d", "692d", "ea0d", "38d4", "b5d2", "e9f1",
    "86f6", "bf22", "6a0f", "e0e1", "ed5e", "9586", "565e", "63eb", "2257", "fa17",
    "88f5", "bb9e", "6f00", "a4c0", "be15", "1011", "d819", "ed68", "4c9f", "39d3",
    "661b", "9487", "b202", "97fe", "e030", "9720", "3b0e", "ac44", "5deb", "f8b5",
    "8d76", "700b", "7f53", "2cbc", "3689", "1b67", "871d", "0b83", "6190", "8558",
    "7558", "8306", "ea86", "a151", "ec75", "72c4", "d60e", "8a32", "a044", "64cf",
    "8107", "ffbb", "19d0", "81a7", "5d0f", "8bbe", "a01d", "c5d9", "f0da", "70c7",
    "e33a", "5859", "3b1f", "d75f", "dca8", "d9ba", "47b2", "169f", "4722", "50cc",
    "bf19", "9c18", "5606", "1cbf", "89ea", "b7c1", "ba41", "0cc0", "ea16", "07e2",
    "25f1", "9f93", "e3c4", "f42d", "1a77", "fb26", "1fa3", "7918", "662e", "15f3",
    "0ec2", "1131", "637b", "68a4", "42c1", "a823", "36f7", "adcf", "15f6", "0ec1",
    "9652", "b078", "3266", "7487", "6fff", "233a", "6c58", "d70d", "efee", "8911",
    "aadc", "a65f", "0aef", "2c5d", "db54", "1c40", "561d", "c0bc", "b6f2", "ee62",
    "dd97", "d8db", "c8aa", "9059", "73cb", "9785", "26ed", "71d6", "1da1", "6096",
    "9e07", "5922", "a818", "8d32", "11d5", "4253", "6322", "080f", "27fc", "b1fa",
    "83eb", "6f1f", "358f", "2e51", "2401", "dc71", "55fe", "f214", "e9c6", "ac5a",
    "1965", "b510", "0310", "b3ba", "0608", "4710", "7533", "864b", "aec1", "f8ed",
    "84a3", "8263", "c72a", "812f", "5f4a", "cdb9", "9180", "1ebf", "3cd8", "9af7",
    "16f5", "3efb", "44f5", "7e45", "0240", "54d4", "5e12", "4281", "3d80", "9bc2",
    "6a80", "87cd", "2830", "689d", "5a19", "135c", "416d", "4e9d", "72d4", "2fd7",
    "6a1d", "8197", "7013", "eca1", "52ee", "38b0", "b397", "58c9", "eaa9", "1254",
    "f92d", "0567", "f0c2", "4ea3", "2967", "53af", "c464", "bf87", "4700", "3ed9",
    "5f0d", "cb27", "5053", "9c4d", "f5c4", "1fc1", "92b7", "bbb6", "5ddb", "ef9f",
    "9ca3", "ac05", "479d", "05f8", "62fb", "c89c", "2fe7", "acf6", "10cc", "75c1",
    "0930", "95d8", "fef6", "82af", "b24b", "8440", "129f", "b596", "3aab", "afe8",
    "c543", "f3d8", "fbb1", "cd12", "469b", "22f0", "88f4", "64ad", "d9d7", "5574",
    "00c2", "0a48", "c82f", "3661", "d8d6", "d270", "1fbd", "435f", "0f11", "3424",
    "ad3d", "3b67", "4811", "19e1", "90ed", "e7a4", "35c8", "50c7", "c1d7", "0663",
    "3a1f", "263e", "8c38", "fc2b", "4c1a", "907e", "9dfc", "8ab6", "c096", "0053",
    "2c75", "09b2", "6437", "1b14", "94c5", "7051", "9fe1", "c260", "34e7", "d741",
    "7fff", "0756", "8979", "238d", "e92b", "c018", "962f", "c95b", "e032", "6fb3",
    "6a0e", "d8e3", "4c49", "53bc", "6d44", "0706", "1cd2", "3602", "5eb9", "6fe3",
    "94a3", "60bf", "5a7d", "507f", "ed98", "3459", "7d85", "7562", "4848", "e69e",
    "f63f", "7fe6", "5029", "c0a3", "a74e", "00e3", "f9cf", "54e9", "e565", "89d5",
    "e6ff", "5f57", "54d4", "7ad6", "7659", "a962", "8028", "8d73", "c5c2", "8c6f",
    "b936", "2964", "ba2a", "7089", "28b0", "1bdc", "ab6c", "9ac3", "438c", "2616",
    "c262", "0a6c", "6fbd", "c4e1", "41f8", "f034", "fa9a", "864b", "055a", "48b2",
    "dfbe", "aebd", "f997", "b4ed", "c56f", "eba5", "fce7", "d5db", "8a1f", "aa05",
    "2c77", "0950", "45a2", "f8bc", "a454", "ef79", "3b44", "2ed0", "38ac", "7c11",
    "eef1", "a550", "952e", "7640", "6f48", "db75", "760e", "af82", "3667", "04fa",
    "427d", "d9b2", "73f4", "afd2", "5550", "1151", "d506", "6ea6", "768b", "0902",
    "0022", "42fa", "5a28", "6169", "1a3f", "0f65", "dad0", "4bd1", "43c7", "f7fc",
    "f212", "1e7b", "7e04", "ece9", "c14d", "eb2f", "365b", "148d", "46c3", "4111",
    "5c30", "1d59", "cd5e", "d6ab", "33b2", "6a78", "1f8e", "8163", "80eb", "80fa",
    "ce66", "9e44", "7627", "18ae", "d9c7", "8263", "6243", "dc99", "f3ce", "bf18",
    "3620", "2690", "97c8", "4445", "ed2e", "a4ce", "4159", "64e6", "6896", "b8f8",
    "b3e5", "07bd", "95d6", "2ddd", "405b", "6349", "a11f", "aa6b", "5ae1", "553c",
    "bfdc", "0727", "9e77", "0832", "0160", "2442", "d223", "a500", "ff68", "7f3f",
    "9295", "a468", "28cd", "7b6f", "44eb", "fbc6", "c82e", "fb33", "e013", "6173",
    "fa55", "0d11", "98d8", "c9d7", "683f", "b3d4", "db30", "c028", "c664", "05ca",
    "04f0", "33ca", "77d9", "44c4", "396d", "dced", "ae09", "1239", "de2f", "fc60",
    "32e3", "2fdc", "412f", "8279", "f7b9", "03e2", "6014", "0d41", "92a0", "d678",
    "704d", "c8b0", "d42e", "796b", "bcb4", "1a4a", "f899", "69cf", "aec2", "d84a",
    "c226", "e6b6", "1b11", "b6e4", "099c", "643c", "2431", "afa2", "e854", "225c",
    "34ad", "7a96", "b179", "e32d", "4716", "d6b1", "1148", "6911", "c9ec", "1ab8",
    "ebda", "b199", "0a55", "3dd5", "a6af", "696c", "bc6b", "7b8c", "4b80", "e168",
    "f630", "f17c", "6bf5", "8901", "9365", "b8d4", "e68d", "e341", "fd57", "fb67",
    "57f4", "c118", "bb4b", "787c", "65a8", "f919", "2e94", "25f1", "cbd8", "1a55",
    "a7ca", "0aaf", "eebf", "8e11", "cce3", "c5a9", "ecb2", "466f", "c10c", "9d6c",
    "1294", "5174", "1705", "ccfa", "6a61", "3eb6", "f463", "8bc9", "281c", "3db9",
    "b415", "3fb5", "9202", "fefa", "9351", "1813", "e644", "b719", "923f", "cff2",
    "efb8", "953f", "245d", "de65", "d9dd", "e678", "a307", "e996", "4805", "0c74",
    "f332", "4ce6", "d0dd", "30b5", "5398", "362f", "597c", "7cb5", "c826", "56d1",
    "4837", "c86e", "254d", "5632", "b37a", "4da9", "c867", "e0e1", "9937", "a1a1",
    "1905", "122e", "ae92", "581e", "de55", "3dd5", "7dd1", "f889", "12c2", "8260",
    "313f", "30e8", "4529", "2136", "562a", "daf0", "e9a1", "adf4", "8bfe", "9a32",
    "7e3b", "8c03", "5240", "4999", "c30d", "9430", "cb5c", "78f1", "da38", "2fdd",
    "1dbf", "76fa", "27d1", "0621", "f40b", "a807", "f8e6", "366a", "b797", "d20e",
    "6792", "3a33", "c9a4", "4e11", "778f", "3486", "f8bd", "1c67", "c787", "40da",
    "0dc2", "2633", "4b80", "02e2", "e644", "8ef1", "38a2", "2ee8", "f411", "362c",
    "d8ca", "bbea", "9b0c", "ad44", "de4d", "e2a7", "ac97", "77bc", "dbeb", "e911",
    "ff96", "4a93", "3762", "c413", "2b7e", "5387", "622e", "ce65", "d080", "c217",
    "9acd", "ab4b", "548d", "7e75", "973d", "8ce4", "c924", "265a", "8c73", "67b7",
    "dca8", "b454", "05b2", "ddf1", "c589", "d950", "14cd", "6af3", "b0c6", "9b39",
    "386d", "c213", "98bf", "bd15", "cf2c", "f4d9", "ffae", "a149", "e432", "d03e",
    "78a5", "f5a5", "15ef", "534b", "3805", "a31d", "f1b7", "1605", "3867", "b2e9",
    "cb6a", "3027", "6a76", "63e3", "d172", "4163", "2ddd", "86a0", "f6e0", "e588",
    "949a", "4b3b", "c22d", "7f6d", "05bc", "fe7f", "a378", "4221", "0cc5", "789c",
    "3349", "7072", "7201", "2a58", "5897", "b93a", "d2db", "cdad", "654e", "4dec",
    "a73b", "2b0c", "afa6", "a0a6", "4818", "a713", "85de", "ed57", "26f5", "5dd5",
    "9f4a", "7964", "b6e8", "6249", "4994", "b211", "eb1d", "aaaa", "197d", "2ca6",
    "6c66", "c243", "0b9c", "8f16", "2734", "53a0", "d02e", "db81", "726a", "1437",
    "116a", "ab1a", "1e96", "d65f", "9fef", "5444", "ba80", "4df9", "a15a", "31d5",
    "96a3", "4bcc", "9158", "4279", "76c1", "3c01", "1aea", "e045", "1651", "f69f",
    "7f5e", "e560", "3961", "b121", "509c", "da4f", "5c96", "fd2e", "a45f", "0b38",
    "97a2", "fb45", "ffea", "a157", "5abf", "8844", "4f0d", "a2e0", "9ce5", "7c29",
    "80f4", "47f2", "78a4", "8368", "06f1", "491a", "df59", "c1ee", "9231", "8602",
    "46ba", "ff45", "ee1f", "c285", "29fc", "4975", "8ba2", "0709", "9d00", "2ad6",
    "ae03", "d619", "b843", "6c54", "6ac6", "c315", "b25f", "73a7", "e72e", "b173",
    "9383", "a477", "ffde", "464e", "0b6b", "7a1c", "8e38", "d734", "4501", "ebda",
    "f6a5", "3e0f", "568d", "6157", "3fd7", "0b8e", "7062", "f291", "818a", "94f2",
    "2517", "436c", "48fc", "4efc", "91d7", "5507", "4e50", "7e89", "514b", "9b1c",
    "341e", "c0e0", "f285", "b06a", "21f8", "0d46", "cfc7", "88a3", "20f6", "09cc",
    "13b0", "1652", "5556", "ed5e", "cf17", "54c7", "5f9b", "50c9", "a535", "cc6a",
    "8a08", "ec88", "6045", "078f", "4161", "866e", "9fdf", "d20d", "6fb5", "4209",
    "b969", "ad27", "d9dc", "cca8", "d4e2", "ade7", "65cd", "db89", "0c1d", "6b98",
    "da6e", "9d48", "6db5", "42d7", "0fc1", "465a", "b5f0", "02ae", "3269", "4cd2",
    "9ec7", "5fb0", "c8a4", "da4b", "a43e", "6574", "5e8b", "c8f8", "d331", "5dd2",
    "f604", "ab57", "f812", "adfe", "a5ab", "0691", "0d8a", "c548", "e782", "e401",
    "705c", "05b6", "1271", "1bea", "19cb", "04e4", "70a3", "41a3", "4c30", "51cc",
    "d4f7", "827f", "18f2", "d5d5", "5e22", "fbe8", "2a59", "ca8b", "1366", "9785",
    "ab8a", "4c5f", "0897", "843e", "3720", "bddd", "e68f", "c3f4", "114a", "b47a",
    "d457", "aa84", "f772", "9c39", "9c2b", "a50c", "559f", "5ea9", "8bfa", "9031",
    "9e2f", "868e", "12d1", "49a6", "8d2c", "6f3a", "e7ae", "30c1", "37b6", "52f6",
    "f8c3", "6da7", "7ba0", "6f6c", "60c6", "8c7a", "452f", "64a8", "e42c", "72be",
    "bdd0", "fe5d", "651a", "fc62", "c321", "fc48", "2b52", "2d1a", "880e", "1af2",
    "9267", "19c4", "2b88", "48ab", "463d", "ce0d", "fb67", "f7b0", "5232", "5989",
    "0a39", "0cbe", "c98c", "20fd", "a093", "04aa", "d431", "74e9", "1ae7", "db29",
    "7b55", "2ac2", "635c", "11a0", "dd12", "dda6", "067f", "54fd", "a26b", "eef7",
    "e23b", "a4bc", "7ebc", "8b19", "f070", "1f71", "83cf", "f70c", "ddda", "db38",
    "289b", "4ad7", "437c", "9c5d", "f967", "aa82", "25f4", "37f9", "69cb", "4994",
    "3c10", "00db", "f9df", "2e52", "9f54", "d92d", "20b6", "fdb0", "2e28", "7da3",
    "52d5", "0db4", "c288", "e182", "6729", "8ba9", "04f5", "0e4b", "1a25", "46e7",
    "e0f1", "8720", "b8cf", "cbc4", "b127", "67c7", "2e32", "ff5d", "9d7a", "99cb",
    "0848", "f6ef", "46fb", "8830", "a61b", "49f1", "db0c", "0dac", "6280", "b4c1",
    "fdf4", "9535", "3613", "6c4a", "c037", "3c37", "8b15", "d233", "fced", "3678",
    "5cc0", "836d", "2766", "df2e", "b16f", "f79b", "1f27", "6811", "e2c0", "d06b",
    "dce6", "ec12", "5fba", "9e24", "e32b", "61ea", "19a4", "04cb", "b7a9", "c652",
    "906e", "dcdd", "b091", "cdb7", "a324", "1fbb", "68a4", "23df", "e7e2", "8290",
    "2da2", "ec80", "33ec", "73f1", "fc87", "7f79", "c033", "4b21", "9d56", "1b53",
    "d974", "9078", "71ec", "a50a", "e16a", "aa79", "a4b9", "5c2b", "b765", "7da9",
    "8a7f", "72a7", "e428", "246e", "8552", "7882", "fc83", "2866", "29a7", "0d6b",
    "b888", "001e", "dfe0", "c2f1", "a66d", "4742", "68d4", "515d", "683c", "f6ba",
    "ef1c", "67dc", "6068", "ead9", "60e5", "b906", "0408", "249b", "7b3c", "71f5",
    "6626", "e366", "f2e3", "db71", "7751", "e82c", "f5e2", "d61e", "ea09", "2d03",
    "3f00", "5ce3", "928e", "6428", "ea0e", "74be", "cc61", "78cb", "92bf", "32c6",
    "b9e8", "add0", "014a", "33cb", "6210", "4c00", "5026", "5716", "c4e2", "9bdb",
    "2d5a", "da66", "4ad6", "ffc0", "0206", "d9d7", "34e7", "da52", "a4f2", "d1b4",
    "914b", "691c", "bcc4", "6860", "12b3", "3dd4", "6ab3", "4fd6", "946a", "7985",
    "14de", "2a18", "e289", "028f", "16c0", "889d", "ab75", "452d", "d2f1", "4162",
    "c7c2", "eeac", "701d", "95eb", "6ab2", "f9ee", "1924", "2847", "4811", "9a1d",
    "51c9", "cd1b", "d113", "2141", "a56f", "ea1e", "99c3", "f082", "9a38", "9bea",
    "5958", "877f", "6858", "a5b4", "773e", "7bb1", "5fae", "a4cd", "ae05", "6110",
    "3576", "7b1b", "e527", "d9fa", "3733", "1dd8", "f329", "d682", "c727", "58b0",
    "4906", "3a42", "62eb", "7c81", "6660", "7402", "02b9", "9976", "8021", "0c9a",
    "bcaa", "acd7", "84ad", "57f4", "ff77", "42c2", "6113", "ac59", "ffd5", "4802",
    "ac5c", "69d4", "da5d", "9205", "7de6", "d51b", "49c0", "e570", "b1ef", "b87d",
    "7b43", "4675", "5647", "e485", "d187", "e655", "a792", "3eba", "d6f4", "fbb2",
    "b18c", "1d06", "8b2d", "b6eb", "a395", "3e0a", "ca94", "d120", "0aa9", "2be2",
    "a443", "873a", "2ddf", "7b47", "1dc6", "6f92", "d4c8", "9b52", "281a", "5fc5",
    "9731", "0692", "0a1e", "1c06", "5c78", "d5bc", "1ed8", "d621", "30a3", "9e04",
    "5ba6", "994f", "e0ed", "ca14", "c150", "cdcb", "c3bb", "1da4", "6526", "4c16",
    "5323", "1f0c", "8df4", "3b0c", "353e", "2dec", "cdc4", "5c8c", "b554", "5ca6",
    "8dd1", "ac7f", "7f63", "5647", "c41c", "18a7", "da5e", "acee", "d645", "4f49",
    "0404", "dae5", "7437", "c943", "872d", "4b60", "fb8c", "b386", "5280", "0a43",
    "1e4f", "ce09", "d7eb", "8645", "cd37", "6f3f", "39a0", "22d2", "f2f7", "cef4",
    "ee8b", "4d73", "00a1", "8955", "7c7a", "a9bc", "8c15", "fed9", "c755", "4714",
    "9131", "bef6", "59bd", "f091", "fac5", "3974", "9076", "b3d2", "faf3", "44c2",
    "a236", "7725", "e297", "fc53", "df7d", "1a21", "eb20", "6ed7", "66ca", "49ea",
    "963c", "c654", "f649", "de84", "ba59", "2756", "e475", "937d", "7d89", "ec2e",
    "45ae", "7f6b", "7a89", "1d16", "66eb", "ac98", "5d82", "6617", "0afc", "5709",
    "887c", "a74f", "0f46", "72fe", "989e", "b585", "b640", "a3d7", "6ca4", "fd61",
    "3e53", "a7de", "829a", "ec14", "af33", "ad74", "42b0", "f289", "e860", "28a5",
    "3764", "b3cb", "3650", "1b46", "0071", "ed3d", "5ab8", "290a", "2bc0", "5996",
    "59c8", "e9c7", "a7a8", "5188", "167f", "58cf", "84ef", "627c", "2d01", "d002",
    "99b3", "a608", "17cd", "5996", "26bc", "7dc1", "a1a5", "f2b5", "10db", "bd8c",
    "f5b9", "72cc", "6198", "5f49", "26a8", "642f", "d510", "c38a", "3396", "8717",
    "1c6c", "d7a9", "a49c", "9383", "f185", "9b57", "4c7c", "72ac", "426e", "59df",
    "2341", "90f8", "c05c", "a26e", "8444", "cc13", "2a8f", "bdb1", "558c", "f2a1",
    "3bdd", "7047", "f070", "d97d", "04f8", "67f0", "1182", "5d7c", "14d7", "716b",
    "19dd", "bd1a", "2a73", "45ca", "034b", "89b7", "6f38", "cf01", "6916", "1703",
    "73f0", "2b81", "e62b", "d3da", "8e3b", "d874", "273e", "9e7f", "8683", "f95c",
    "51a9", "373e", "9c59", "89bf", "e992", "1c70", "5702", "bd3e", "fceb", "a496",
    "0661", "fb4b", "44ae", "4059", "a1d5", "2cc4", "6b48", "dc83", "4141", "87f6",
    "116f", "76d6", "7f48", "aaef", "da23", "74b2", "b284", "0086", "0ed6", "6171",
    "abe4", "6215", "7c31", "0c53", "bf00", "22c4", "eb21", "72c2", "8f90", "9932",
    "5665", "8a61", "3ebf", "24a6", "082b", "3cd0", "66d5", "baf3", "4bd5", "4851",
    "2c72", "90db", "5816", "0f7e", "9bf5", "cabb", "b892", "c5e8", "2338", "a81b",
    "05f9", "dc0f", "de48", "b7fb", "8c88", "6309", "69a2", "a1bc", "8f81", "55cc",
    "4373", "496f", "457d", "183f", "3e64", "2624", "51ec", "928e", "7485", "85fc",
    "e533", "1a53", "43ba", "1f7f", "7f52", "ee70", "b607", "696a", "bfea", "8c1d",
    "15a9", "90c1", "83f4", "d7fb", "49ec", "e65d", "fced", "a8de", "2b28", "2e66",
    "aa43", "cb06", "2e8f", "bffc", "223a", "a848", "a010", "ec59", "8f95", "19fa",
    "0094", "4350", "6707", "beb1", "ffb4", "b6e0", "dcfa", "4ac3", "b806", "8c88",
    "43d6", "9ee2", "bc04", "910b", "20b2", "4a25", "1d2f", "b4a6", "ae15", "9f2d",
    "ae03", "43f9", "70c0", "0194", "f70e", "9d96", "edcc", "34e8", "72bc", "f908",
    "ec92", "ccda", "4c07", "4b63", "c67f", "1d71", "d814", "3ec8", "8b4a", "7078",
    "eb6b", "1525", "d178", "290d", "ca98", "9553", "6ee1", "1ced", "cbe4", "83a2",
    "8b0c", "c5ff", "336c", "2d62", "9dd7", "13a5", "5f2e", "68d1", "ae6c", "e66f",
    "ecce", "b38b", "a93c", "debd", "826d", "2322", "14ab", "9927", "18c0", "fe76",
    "8dbf", "fb77", "7712", "5a6c", "29bc", "b52b", "8eab", "8593", "9873", "7226",
    "3c86", "067c", "e86b", "b286", "66f5", "2d66", "b3f1", "43a9", "321e", "4497",
    "805d", "a3c5", "a8e0", "15b6", "2c41", "c873", "debf", "14a0", "1192", "64c1",
    "21a9", "a430", "27bf", "f4be", "c7b3", "62df", "75d7", "7e2d", "534f", "270e",
    "9ca1", "aff4", "6216", "229c", "43b1", "2d03", "8b12", "a59f", "9c3f", "cde9",
    "8026", "8bfd", "35cb", "fa3b", "3459", "bec2", "40c6", "cba3", "e1df", "d1f8",
    "b177", "f4c2", "0a15", "4500", "6b0f", "41a9", "4bc4", "cd4b", "ef1f", "87bb",
    "a4b8", "3b5c", "7023", "9af9", "1aaa", "cb6a", "a034", "f5aa", "f9d9", "d467",
    "6715", "4826", "02ac", "7ed4", "ce47", "f9ce", "01db", "1781", "88b3", "1597",
    "4f5d", "ee5e", "f876", "e339", "45b8", "b794", "0294", "44d2", "5018", "069e",
    "e9ec", "a6ef", "1d41", "066d", "dc24", "dc70", "4293", "17e1", "13d0", "8a3f",
    "5e78", "223e", "e15b", "3e79", "f8d8", "e148", "e3ba", "e5dd", "9b37", "f96b",
    "23c4", "7a35", "d020", "707f", "269f", "ddf7", "25df", "1e9f", "acc8", "995e",
    "1606", "58e6", "163c", "2c7f", "e42a", "e8d3", "ec31", "03fd", "e6cd", "5577",
    "d210", "99fc", "c742", "93f8", "c55b", "3adb", "c110", "945d", "10be", "b8f6",
    "259b", "faad", "6b9c", "8336", "d738", "2d67", "e7dd", "7282", "7669", "19f7",
    "6e7c", "f3dd", "1e2f", "feaf", "dfd7", "eff7", "19f3", "be57", "eff2", "0073",
    "5c94", "3f32", "f33d", "6cfb", "e6db", "be96", "4953", "8922", "da5a", "1cf8",
    "3db0", "4a85", "7917", "a477", "1bf7", "e852", "72a0", "5340", "289a", "43c5",
    "dbeb", "2d88", "f9a3", "ac40", "eac7", "ad45", "9c77", "163f", "76e6", "cf51",
    "4a85", "e9a6", "817b", "8433", "7ecf", "46a8", "74e4", "e432", "150c", "c602",
    "7b46", "a30c", "513d", "73b2", "8d1f", "e083", "e8b6", "36fd", "5bb7", "dfa9",
    "10b7", "ea72", "e1a2", "ce80", "83bd", "a9bd", "6fe8", "55b9", "ac1e", "b9b6",
    "13e4", "2c33", "8159", "ff05", "2605", "7f04", "a893", "fd00", "39bd", "d175",
    "33d9", "1f0a", "5a0b", "f719", "ada5", "6b46", "939c", "a6fb", "a329", "5ee9",
    "8da4", "0679", "72df", "0877", "dcb9", "2810", "1492", "0dd2", "119b", "b6ad",
    "8645", "47ef", "236d", "3c57", "60ba", "b784", "0c82", "2eab", "ed35", "1385",
    "c744", "b6fd", "0f1b", "775d", "bd9d", "4096", "4c4f", "1e08", "6b40", "a0b2",
    "cdbd", "1885", "27bc", "2896", "dcae", "1c3f", "b0f7", "c058", "c95e", "abb7",
    "5607", "423a", "3449", "ce45", "4b2d", "abc9", "7f8e", "c45b", "a40c", "2f3c",
    "45f6", "2b13", "ac5c", "6053", "96b6", "e9c0", "ec41", "42d9", "98d6", "af16",
    "5ccd", "196b", "2f2d", "80d2", "1b94", "c802", "ddcd", "80ac", "55a7", "1b2f",
    "f142", "c2f1", "98ba", "3420", "4b0e", "bdf9", "1e7c", "d73c", "bb0f", "cef7",
    "3211", "9280", "562a", "5df4", "c5a3", "b362", "65c9", "fb00", "6d4d", "3713",
    "8ad1", "e119", "26d7", "5fcf", "7143", "c91e", "7c74", "d0d5", "6693", "51ad",
    "4285", "33a6", "ff1d", "55b1", "2889", "1123", "42f2", "3734", "1cf8", "a49e",
    "ed64", "59bd", "0771", "ecb8", "c349", "0853", "b2b9", "e308", "514a", "2fd3",
    "1113", "49c6", "ff07", "d51c", "40f9", "c225", "506e", "2fce", "3fd8", "7ea9",
    "ad61", "bf7e", "c5cd", "6fd0", "18cd", "f9f1", "ed37", "664e", "e965", "e381",
    "27d1", "a03a", "8453", "f751", "f75b", "80f7", "4ec9", "0e9e", "8b83", "9ece",
    "e8fd", "c836", "dc61", "37fd", "7b74", "bb6f", "d981", "25e8", "9a7c", "a429",
    "698d", "0a06", "240a", "c984", "80df", "a955", "0d64", "9765", "6706", "f64a",
    "cd99", "bb9e", "b91a", "e08c", "dcfb", "9bff", "0956", "0675", "5a5a", "6a0a",
    "7395", "6efa", "215f", "79bc", "0cfb", "a0e9", "56c2", "5195", "ae63", "41c2",
    "1565", "a010", "c534", "96c0", "795f", "4b34", "b37a", "814e", "bff3", "ae21",
    "3fd2", "a196", "14b8", "a7aa", "9936", "bc0f", "1d6e", "04ee", "0473", "8576",
    "4e3e", "96fa", "f8cb", "3020", "0391", "03a6", "8e4b", "97d5", "7096", "6a2b",
    "e0d4", "4302", "679a", "e05e", "9874", "0e8d", "6387", "1c50", "8e20", "f17c",
    "cd1b", "a1c3", "0bcc", "a929", "5513", "2d80", "d55c", "d1d3", "2c4d", "958e",
    "d828", "2a22", "93f8", "b6d4", "ce95", "92b4", "eb74", "27ba", "148f", "83c8",
    "0ee7", "208b", "e9fb", "ced5", "57bf", "c75e", "1d64", "d859", "d59d", "c709",
    "8140", "9d9c", "ad5f", "edaf", "2816", "b20f", "6006", "558c", "bafd", "0309",
    "046d", "5b1b", "cc03", "25a4", "1c17", "1a5e", "6b6a", "3030", "cea3", "41f7",
    "6375", "ffb9", "ee6c", "eb0a", "f9c4", "9755", "31e3", "2728", "246d", "5a41",
    "1d9d", "5309", "16ea", "ab28", "ff77", "3dd8", "a626", "94cf", "f9e4", "6b0f",
    "2ad8", "2384", "c2dd", "6b6f", "6f1c", "6bb0", "41a4", "f2a1", "3956", "cb5f",
    "6e03", "4f63", "afc4", "6c61", "de0d", "a4f4", "1623", "c8f2", "1cb5", "343b",
    "aa56", "a0d2", "6c5a", "c97e", "afdb", "db20", "f475", "4189", "7ba5", "273b",
    "7bb6", "65a6", "4383", "17ae", "2e89", "5576", "74a8", "61b9", "9142", "fae1",
    "669f", "18a8", "7da5", "f9ef", "3712", "c65f", "48ed", "e446", "6024", "d93b",
    "f828", "de09", "39a0", "92f8", "ce84", "710a", "f145", "778a", "a880", "47a7",
    "c208", "5460", "66c9", "b55c", "b9ca", "10fb", "38d8", "8efa", "ed2f", "23f7",
    "9527", "8154", "5f4f", "49a3", "5a71", "12d5", "d0ca", "fd39", "6d17", "a1cf",
    "b490", "2104", "4dbc", "d839", "8b3c", "ac36", "3213", "7df8", "0605", "cb4f",
    "7653", "e192", "6407", "13e2", "6d7a", "82e2", "a742", "6ca7", "e568", "28d8",
    "33aa", "20c0", "9e68", "f353", "e363", "ae69", "9832", "d34e", "ed25", "86fe",
    "01b5", "3787", "574c", "8d1d", "56e9", "f37a", "e448", "f6a3", "7f65", "be7f",
    "3a27", "ce2e", "0b00", "c500", "e376", "7189", "bd92", "47f5", "689d", "2d6d",
    "c922", "43fb", "31a9", "c37f", "6510", "9b9a", "d380", "d26e", "e0c2", "87f1",
    "4be8", "937e", "71ed", "b5a4", "954a", "3c97", "95f3", "6222", "0e23", "a160",
    "a982", "fbff", "7d67", "7acc", "e7be", "320e", "e65f", "6761", "a2e9", "fa4b",
    "27c8", "e475", "5620", "045b", "d0de", "ca61", "156b", "45d6", "d31c", "743a",
    "e9b6", "eae9", "a42d", "49b3", "de42", "d6a7", "882a", "3aa3", "1ed5", "e2f2",
    "56b8", "6730", "a476", "4f91", "431c", "3cbb", "d832", "011c", "f898", "c32d",
    "76d7", "553b", "3cc3", "f926", "a1bc", "b02f", "7e97", "0c96", "3301", "efc2",
    "19ad", "9fa0", "1a02", "eb09", "4206", "6a8f", "2778", "1ac3", "b8cd", "2971",
    "9469", "69cd", "84da", "1298", "aa5d", "8d15", "0703", "12c0", "daf1", "2435",
    "540b", "9658", "6b20", "064e", "bfe5", "a2b9", "cbf5", "9654", "ced0", "913c",
    "0945", "023c", "7373", "c74f", "0ddd", "9ebc", "bd15", "1750", "a869", "7575",
    "0171", "d0b8", "3283", "09ad", "d5e0", "1476", "d89e", "3294", "3845", "9e21",
    "cbe8", "1508", "36f8", "0f38", "506a", "1071", "f4f2", "db44", "c322", "6f83",
    "44bc", "1c8c", "e334", "b7d1", "4c82", "efe1", "b2e2", "a618", "45c5", "68a8",
    "5864", "e43d", "8f1f", "e044", "81ea", "3370", "fd23", "6cd9", "3e28", "8bc1",
    "0dc6", "43b2", "a18f", "024e", "0ca3", "5588", "07f5", "698c", "4b3f", "81bf",
    "f296", "a68e", "5e11", "7d16", "64e4", "6373", "d35d", "8ece", "292a", "a4b9",
    "21c3", "81ee", "4aa3", "ad9e", "c528", "d530", "a43f", "b2e7", "26a4", "a45e",
    "ccee", "9097", "1bf7", "6849", "ad32", "d590", "049c", "cd0d", "4c2d", "1bdd",
    "bfda", "4481", "1691", "25e2", "837e", "59fe", "0ce0", "dfcf", "45f8", "ac2f",
    "4eeb", "e019", "93f5", "6c52", "f693", "5f94", "a5f1", "8f6c", "770b", "3b10",
    "875d", "1225", "e933", "5912", "73e7", "7728", "f349", "1ede", "8d0b", "ed02",
    "c95d", "597a", "b05e", "20b0", "c0a7", "4a87", "0d85", "e254", "c50a", "f8ce",
    "fcc1", "b23f", "4a03", "b091", "61f0", "f9c7", "038f", "df47", "7bcc", "f7aa",
    "c9ad", "d70b", "55f3", "db5c", "6206", "d4ab", "b5e2", "ba9d", "7192", "d45e",
    "8647", "29b6", "52b9", "7828", "7cd5", "a04d", "4754", "a3cc", "6280", "2601",
    "067f", "8b81", "92ad", "24ff", "a7d9", "4aab", "622d", "7b33", "b564", "da75",
    "aeb6", "56c8", "3eee", "9857", "7111", "af6e", "5d45", "9406", "bf46", "0e6b",
    "3831", "e9e3", "61a3", "4907", "1975", "c026", "8023", "3586", "e1b1", "d008",
    "9674", "8058", "d15a", "c018", "8297", "3c43", "2bc1", "79df", "d0f3", "21ad",
    "9798", "2fe7", "4a3b", "76a3", "d274", "7664", "a160", "d06b", "accd", "b398",
    "2f8b", "a95b", "520b", "82a4", "4e3e", "5e1d", "e219", "25a2", "1e2e", "6c36",
    "0f4e", "625e", "1b16", "08d1", "7abc", "408c", "85cd", "15ed", "c6f3", "273b",
    "3059", "3d30", "5da2", "3b73", "4456", "5066", "29fe", "7875", "f7c2", "4669",
    "ccce", "4c7a", "3d3f", "6771", "0b83", "6730", "861d", "1eeb", "5a83", "2310",
    "f0cb", "4afe", "d1ce", "f057", "30a3", "f50b", "c90a", "6296", "e405", "f03f",
    "2f17", "0522", "95b7", "b1b5", "fc0c", "9212", "b01d", "b1ab", "6abf", "91f5",
    "cc9b", "639a", "81d4", "f68d", "dac0", "1d9a", "9b1b", "10a0", "46ca", "b62d",
    "edd5", "3b68", "ccd4", "2f8a", "1da7", "f36c", "c796", "c625", "572f", "d63e",
    "9986", "e068", "4d90", "1b2e", "5fc8", "5498", "2226", "6ea4", "b36f", "a86e",
    "da2b", "b504", "3d20", "423e", "7b49", "b78c", "2654", "d678", "7588", "0029",
    "0222", "2ee5", "3276", "ea5b", "f2ac", "41e5", "1c47", "fb85", "f0d0", "9800",
    "8a46", "0961", "89a0", "c7ff", "859d", "7dab", "e7d7", "ee71", "b501", "0797",
    "27c6", "3ae6", "1998", "8b8d", "91f8", "054f", "3bfe", "fc7c", "dfbc", "5492",
    "7f88", "10c4", "96c8", "5e9f", "77a2", "06a2", "6ecf", "d3a3", "bb2f", "07e3",
    "580f", "b1e4", "7d4b", "cd79", "f260", "4e06", "99b9", "9db5", "028d", "f884",
    "f940", "4f9f", "20f5", "cc73", "2feb", "59fd", "fd2d", "fa80", "d66c", "c7ae",
    "983b", "1e83", "442c", "0c04", "3c9f", "3d71", "cf24", "4b96", "3ac3", "1cac",
    "fc12", "b4e2", "c200", "701c", "1f45", "c2f2", "bdcd", "425a", "2490", "19be",
    "9bdd", "7424", "ad91", "aec1", "dece", "01a5", "90c6", "75e8", "5594", "b49a",
    "5dc9", "25c8", "6611", "546d", "ed53", "184a", "30ed", "7d95", "4a49", "6e43",
    "941a", "ddb8", "7c1f", "6dc1", "0492", "028e", "c6b8", "36a4", "8f97", "ec13",
    "87fa", "3caa", "c458", "b4c7", "4b0f", "9e61", "d2cb", "ca01", "eb1d", "ec4b",
    "9941", "e557", "e6ac", "d212", "c781", "7095", "0846", "8095", "2d86", "111a",
    "ef5a", "2796", "1310", "3041", "fa02", "5699", "b659", "1e86", "ce39", "9c3e",
    "0c18", "21ab", "764f", "0102", "3c05", "120c", "522e", "7c6c", "d40e", "d14c",
    "bca5", "10bc", "fc3f", "ab0c", "2b80", "a488", "d1ae", "9909", "5b4d", "c54f",
    "acd7", "4a0c", "97a3", "c8a9", "d098", "0207", "30cf", "9eff", "9dac", "ca81",
    "675b", "3523", "d1f4", "a945", "b513", "fb21", "eb4c", "1044", "e40b", "da09",
    "ebe7", "9b1b", "9cba", "128f", "7c11", "306a", "f2cf", "3fc8", "3d6c", "d315",
    "b8c2", "4bb0", "dfc9", "6ce3", "66c6", "483e", "29bd", "8421", "417a", "1e23",
    "9615", "792b", "1f38", "f012", "fe2e", "6be2", "0688", "96c9", "1f95", "e25f",
    "7659", "f3bf", "7035", "895a", "487d", "ec52", "d839", "166e", "71e1", "ecb0",
    "f8ec", "c255", "e922", "e172", "328e", "2cb8", "8416", "e9d5", "e179", "7ffb",
    "c9c3", "4d1e", "256d", "754c", "2a5f", "c7d2", "beaf", "49ca", "90f1", "8e21",
    "7d30", "e265", "6814", "acda", "45b4", "9a4e", "f3b1", "eacd", "fc6a", "a62f",
    "ced4", "a9d9", "0436", "e712", "822b", "204e", "6d71", "cad1", "3467", "386a",
    "0893", "bd4e", "3d35", "04da", "03ff", "233d", "8f84", "1e2d", "9205", "1bd9",
    "9e40", "06a2", "3ca6", "6dbf", "936e", "63a1", "af1f", "3dc9", "3a31", "779c",
    "7baa", "15f0", "848a", "3a6a", "e76b", "f5c0", "3e87", "095a", "be5f", "9285",
    "e2f1", "8736", "db48", "703c", "e99d", "91ae", "a678", "1456", "f47f", "703c",
    "4746", "23f5", "ba26", "0086", "03e7", "e753", "cc87", "ff91", "1b56", "5253",
    "a0bc", "a724", "bcdb", "20a0", "ad76", "f37a", "b53d", "1646", "c4e0", "012d",
    "b8bf", "4061", "87e9", "d4e2", "3fa1", "c256", "7af4", "9fde", "f4b0", "f2c5",
    "4822", "41ef", "0cbc", "6561", "bd21", "c01f", "d257", "a7fd", "d34f", "0e44",
    "e26d", "6652", "6c75", "da35", "2296", "7a0d", "808e", "743c", "f238", "5594",
    "ecea", "7180", "3c8c", "7685", "bb40", "2bfe", "9842", "ccda", "d037", "6176",
    "8e2b", "81fa", "78fc", "5f93", "124d", "5923", "cff6", "135f", "15af", "77bf",
    "884b", "625b", "dd3a", "2f9e", "60a7", "693f", "6af1", "23c1", "4a15", "9e33",
    "c419", "bafe", "f994", "dfa4", "f680", "01bb", "b53e", "a97d", "2e3d", "170f",
    "ebe9", "a28a", "ad55", "325e", "374a", "08ff", "d4f2", "ff16", "8153", "e991",
    "20e3", "2512", "ad3b", "7fb0", "efed", "26d3", "9713", "6fbf", "4482", "e0be",
    "daa2", "bf2f", "1223", "bf11", "62b9", "a5a3", "d1b5", "fd2c", "7206", "a873",
    "452f", "77fa", "3f3d", "9bc4", "6e3e", "972f", "ba70", "1098", "751a", "ca63",
    "3297", "eb2a", "0e86", "8dda", "21e2", "57b2", "cd6f", "cc5d", "6707", "9e23",
    "621d", "2841", "f4f6", "7e5c", "0b4f", "21d7", "a906", "881d", "b0f7", "0343",
    "2bdd", "9d14", "5275", "f2f5", "84be", "826c", "e683", "f069", "a982", "64a2",
    "9c8f", "f5ca", "6bc8", "9595", "65a6", "7110", "9bfb", "9db4", "36f0", "fd8e",
    "8479", "b0d9", "66bf", "7a67", "ccc3", "8eaa", "1ca4", "5b26", "edd9", "8c72",
    "32da", "3449", "c089", "dde8", "1644", "6d8c", "5ff8", "99e4", "aacb", "19a0",
    "7d56", "9968", "eae5", "f194", "c9a3", "abfa", "68a8", "bfbd", "86f9", "e9cd",
    "a358", "e560", "99a4", "1690", "1f7e", "abcf", "90e7", "b7be", "6133", "b260",
    "fc46", "fc87", "5da3", "78dd", "17ee", "8b40", "fc5a", "3916", "f5dc", "2200",
    "c8c6", "dee3", "720f", "7a67", "c70f", "f586", "bb58", "95ed", "cffa", "530b",
    "df99", "6165", "f1cd", "f976", "a0e9", "fdcc", "6f7c", "5523", "ddef", "5a93",
    "2bb3", "a8df", "c68c", "c285", "ecb9", "fdcc", "2a5e", "d025", "1529", "13c8",
    "c89e", "259a", "0f1b", "fedf", "e1a4", "f091", "4b39", "4d76", "efa0", "2452",
    "95f5", "f57b", "cd79", "eb85", "bed2", "0828", "6112", "ab44", "76f6", "7f81",
    "a3c2", "8918", "787b", "a2b7", "3fb3", "4952", "42e1", "ea0b", "a4f0", "f1d8",
    "5110", "04a2", "b272", "a4bb", "4478", "b481", "4dec", "1118", "e281", "5aa9",
    "4447", "f449", "56c0", "8a7c", "76c6", "aa3d", "2505", "723a", "291d", "67e6",
    "6554", "e39d", "a3ca", "d8cd", "2521", "6001", "b0b8", "8002", "27a3", "ed4d",
    "43e8", "8e08", "3a3a", "c245", "41a6", "fb43", "3f05", "2fb6", "2432", "7ae4",
    "e028", "4c30", "3a4d", "f0ec", "6318", "9de4", "ace1", "29a6", "0907", "1b86",
    "c7af", "efcd", "f269", "c415", "d737", "e728", "246f", "5017", "f7d0", "7d5d",
    "53a8", "cc01", "5d2a", "4d52", "ce8d", "6bd3", "c04f", "4f7c", "3b3d", "2d78",
    "7df8", "947a", "9cd3", "1c4a", "7406", "e528", "ef81", "191f", "9e0d", "403b",
    "5e5e", "f2e9", "cdfb", "1bd5", "a281", "b8fe", "62e4", "8dcf", "101a", "5dfe",
    "10c7", "2a65", "be8b", "5f8b", "b636", "60ca", "e15c", "072b", "49a6", "8429",
    "1428", "741d", "49d1", "b91a", "1bec", "a9af", "508c", "9515", "7590", "de6f",
    "1bdb", "44d4", "b4b9", "73a7", "2959", "6836", "5ea7", "7637", "f50a", "3a2a",
    "f169", "de11", "7146", "3404", "5cc2", "1565", "158a", "573e", "a327", "d1aa",
    "852c", "42b0", "a6ce", "1311", "19ac", "89b4", "091f", "b244", "3f8f", "a358",
    "3fcc", "44fe", "1eb5", "2fa8", "8842", "953f", "4ca4", "d6e0", "ea69", "bf13",
    "ef94", "e8cc", "496d", "297d", "8004", "d915", "9b5b", "20b9", "1db2", "38e9",
    "4b97", "2f31", "2a93", "9b13", "31f9", "0b39", "1255", "e8f7", "654e", "3293",
    "954b", "6e7d", "b027", "5744", "12af", "fe25", "c34c", "ac28", "b747", "1462",
    "6d50", "baca", "9312", "2eb9", "858a", "f820", "d9fa", "265e", "4f7b", "d7af",
    "547f", "7757", "5269", "60f2", "e058", "6b52", "a002", "b959", "064f", "4f25",
    "f9ec", "b875", "86e8", "bbda", "9dfa", "a328", "6f53", "cedd", "4e2b", "2ff3",
    "7c20", "8d02", "de7c", "1ac3", "843c", "664a", "ba85", "2fb2", "a40f", "6f65",
    "0db3", "2e60", "6aad", "4293", "d496", "70ac", "24d6", "a07f", "3f18", "5b73",
    "0dd1", "5119", "5ad7", "5b13", "b5d9", "57b4", "e179", "8d86", "b72e", "daea",
    "6830", "d84e", "113d", "ccd7", "cc87", "b3cd", "3769", "440e", "cb41", "a5bd",
    "68bf", "0149", "a1d4", "7c55", "c169", "990e", "f56b", "28e6", "2ae2", "2f09",
    "322d", "e902", "6f06", "775f", "d6d6", "31ba", "4561", "1b1f", "a3b6", "145e",
    "d693", "ccfd", "213f", "9ac1", "fa99", "18b5", "e15f", "9d85", "2cd7", "b4bb",
    "4d2c", "2840", "feff", "d0e4", "a185", "11be", "d048", "a664", "a886", "34ff",
    "b204", "62f6", "075f", "3966", "1391", "307f", "f4af", "b783", "4f34", "26cc",
    "444e", "267a", "d571", "126d", "b010", "2577", "82e5", "64d6", "b1af", "f06a",
    "4e36", "0453", "4906", "c85c", "3825", "28a8", "98a4", "0059", "f09c", "84d6",
    "6836", "497a", "875c", "1ffc", "6d5d", "6735", "cbfa", "4633", "0914", "a212",
    "a7d5", "2309", "86c2", "a75b", "a62b", "f0b7", "e773", "938f", "aefb", "c785",
    "55a8", "cde4", "bd67", "88d6", "0680", "3ef4", "6580", "215a", "6396", "2a39",
    "44e0", "35e9", "8a6d", "c179", "9ea7", "6fbb", "696f", "7908", "884f", "1e1f",
    "11e4", "6e17", "7439", "bc48", "4a68", "9a22", "51a1", "b464", "ed95", "6138",
    "11de", "5577", "48be", "91af", "2a18", "431b", "83c6", "d2d4", "8737", "3184",
    "0885", "a8db", "fd92", "a5a3", "107e", "5589", "4ccd", "d51e", "c5d9", "2435",
    "c501", "8cb1", "ef27", "91cf", "b1a2", "d824", "a3fd", "bd60", "c2b0", "f512",
    "575e", "165a", "895e", "b92b", "e632", "0047", "15ec", "a068", "bb31", "b31a",
    "a3a8", "00f9", "6b41", "3594", "ba29", "2aae", "b05d", "603c", "c50b", "d42b",
    "ffb2", "d79a", "cef1", "1c68", "d6d4", "6087", "66a8", "1079", "81ef", "2a1c",
    "07b2", "b4dc", "05f1", "22a9", "5080", "0fc0", "553b", "265c", "2d1b", "01c2",
    "d6a2", "4f88", "edf3", "ec49", "0792", "38c1", "8929", "93d2", "fdaf", "6c7f",
    "08de", "c302", "979e", "feed", "6018", "de86", "9d4b", "8835", "177f", "80dd",
    "ecc0", "b982", "f829", "1139", "d3df", "49be", "ff3e", "959c", "ade4", "4607",
    "c638", "8d40", "9c2c", "eecf", "0ded", "fa88", "d012", "6b55", "81e6", "034a",
    "77d8", "e5bb", "e4d2", "04c5", "af52", "256d", "d4a9", "8f76", "32ba", "ca6f",
    "ba23", "4fea", "5739", "08ed", "a2fa", "819f", "0559", "3783", "3a7d", "2a44",
    "55c8", "efaa", "41d7", "44d5", "08d6", "f5a9", "8dce", "e8de", "4a7d", "b53b",
    "dd7d", "2f30", "2a85", "12da", "9975", "489b", "6a25", "e1d6", "0ccb", "073f",
    "689d", "f440", "ac9a", "43a8", "1b8e", "bd40", "ac99", "79ca", "0e5d", "4b2c",
    "79b1", "818e", "c5a9", "7b66", "807e", "a1d3", "d4a3", "0b53", "3e04", "fc84",
    "55d2", "fca7", "94a9", "f700", "5614", "1290", "d7cb", "d028", "4147", "a04e",
    "f177", "a467", "19b2", "cfb2", "88e8", "ba08", "7bfa", "9d97", "5921", "64e7",
    "7238", "f3f1", "c848", "03d3", "9720", "c962", "239b", "fe67", "632c", "518e",
    "c81e", "3c0f", "8358", "6c31", "a2e7", "7464", "0458", "99da", "90f2", "27ea",
    "89e8", "600e", "93c5", "6915", "0f74", "2ab3", "0ae6", "c12e", "7f03", "ae18",
    "ba1e", "c8e0", "50b1", "6e5d", "cb1e", "7c22", "331b", "f901", "6efe", "e4f1",
    "e775", "d808", "d226", "4ac8", "899a", "74f4", "446f", "c859", "f1bd", "f497",
    "51ce", "7694", "af13", "c39a", "4d60", "6dda", "4372", "b2d0", "5861", "7dd8",
    "6a31", "4d04", "7e4b", "4e8b", "7641", "3126", "a0a0", "6f20", "5b37", "1e9d",
    "7a5c", "0a6a", "5dfd", "0f0c", "0cb1", "6ca7", "d7ae", "60da", "78ef", "dd9e",
    "2445", "f050", "31fe", "42ca", "0097", "02bd", "7148", "3366", "5282", "64af",
    "8c3f", "9866", "dd77", "9b10", "b6cf", "d8fc", "64c1", "3834", "30c1", "36f1",
    "d8aa", "c658", "610b", "8d42", "6972", "cab8", "faf2", "4e66", "4b23", "0c97",
    "725b", "121a", "a2e5", "71f2", "e22e", "c2f1", "add0", "6276", "1a58", "568a",
    "519f", "4f71", "5216", "dee6", "0e96", "f005", "3ffe", "ec77", "b490", "3863",
    "bda5", "8448", "7eda", "3546", "295b", "3819", "21d3", "52e4", "57bd", "32c1",
    "4104", "bc36", "ec93", "2f09", "3d17", "a111", "ad13", "87cb", "5527", "31b1",
    "2f4d", "13b3", "e190", "15a4", "2cd4", "8fc1", "ae8c", "0785", "9f34", "9363",
    "b0eb", "f951", "f728", "b41a", "2739", "be80", "d12a", "3ca0", "bb53", "7e01",
    "27f6", "1d86", "48d4", "c6dc", "c1cd", "6f4e", "2c0f", "afeb", "11ca", "733c",
    "6c6e", "1cbb", "e716", "d30f", "5bae", "0fc3", "2044", "7e9a", "7db1", "538c",
    "edad", "3d4a", "1cdc", "79d9", "1f51", "ee5d", "ba85", "8110", "67c6", "7905",
    "e601", "62fe", "1597", "cc79", "fdbd", "3413", "2169", "8b22", "d8a4", "9e67",
    "e309", "cc32", "4736", "9f73", "1010", "0ac5", "c145", "dd7a", "16e7", "e336",
    "72c6", "16b9", "a268", "892a", "b651", "85f1", "a95c", "5f20", "0174", "af1a",
    "3a72", "8686", "3856", "ea9c", "c883", "5f52", "037f", "110c", "8367", "44af",
    "c53f", "5718", "18ab", "19ab", "3e0c", "4dae", "1ffd", "9f0b", "f7f8", "b1d5",
    "1e21", "4ebf", "444c", "f9ac", "6fea", "7552", "796f", "fc56", "7dca", "4605",
    "da7a", "e64c", "a45d", "d18f", "f517", "1d2c", "8ae0", "7bab", "d1b9", "b4d7",
    "d8c3", "5a47", "5199", "8033", "0a6f", "af79", "f89b", "78d4", "1975", "79f6",
    "4c62", "3243", "be8d", "ddfb", "d63c", "69bf", "80a7", "d7c1", "a2d6", "caa7",
    "5c8c", "11ce", "82cf", "38b1", "a3db", "e5c0", "c858", "aed7", "5a7a", "2eb4",
    "6735", "b12f", "7ab9", "7f07", "59a8", "3c7c", "c216", "db48", "bc91", "78ea",
    "798a", "fa23", "a5e8", "947c", "099a", "4c60", "30b2", "63c7", "3b16", "e17a",
    "673c", "191b", "360c", "eb35", "de24", "e13c", "ae97", "17d2", "821f", "27fd",
    "e2d0", "b642", "d03d", "13c1", "7afe", "f245", "7eb8", "e0c7", "1112", "5f2c",
    "afaf", "d161", "4959", "9490", "114f", "1b17", "795d", "f456", "a318", "fceb",
    "06c7", "8f95", "e837", "4380", "04a8", "56ba", "abe4", "b8a0", "1323", "06f1",
    "884e", "b356", "cdeb", "5eb8", "94d7", "5300", "4085", "0945", "1876", "6f97",
    "7829", "ea10", "9740", "8c35", "8bdd", "50a9", "bd5f", "37f6", "75ca", "e229",
    "8486", "932e", "e9d3", "5b81", "fc25", "addd", "6b89", "15da", "45d6", "c09b",
    "c60b", "c3a1", "be14", "423e", "b432", "48d9", "387e", "be7d", "101e", "0f3d",
    "5b70", "56fe", "5c11", "776f", "ae73", "5a2f", "a128", "9d13", "983d", "36c8",
    "0b46", "76c3", "cb72", "5f5a", "2f48", "1da6", "6bd6", "53e5", "5b86", "b90b",
    "d41f", "1636", "d366", "4d12", "1c81", "b496", "1301", "d64c", "fdd2", "6bb9",
    "7488", "2996", "7c1c", "e6b3", "19f3", "b898", "e100", "996a", "f301", "eace",
    "a8d4", "50c9", "32f5", "f5de", "dbeb", "9d1b", "2b86", "6dda", "a0e2", "88de",
    "57e7", "4397", "1ab9", "44e0", "7d95", "f9a6", "fab9", "3d65", "783f", "48c4",
    "3353", "4f13", "7820", "6980", "8b8b", "3e59", "caab", "6c07", "13d5", "b899",
    "f33a", "dd6f", "221f", "c055", "84b7", "2eab", "8b76", "889f", "7a3c", "9c26",
    "8285", "20c1", "1245", "e2fd", "ee8d", "0139", "18ad", "4a33", "f9e9", "c604",
    "5887", "3f2f", "72b1", "b37b", "f230", "f2bc", "23e1", "a9ae", "001c", "9b64",
    "3407", "b0c6", "3648", "ba66", "a8ff", "53d4", "3584", "1ab1", "c655", "7275",
    "fcfe", "94fc", "dc6d", "b422", "e15b", "ab20", "d4d5", "fc43", "a9f1", "0f67",
    "4942", "4198", "5eb4", "268a", "67ca", "f9f6", "d2cf", "1adc", "75ea", "7cd4",
    "fcff", "c65b", "b09a", "49c9", "a4ea", "80dd", "8eda", "33ef", "b562", "2ffd",
    "9063", "17ef", "0966", "bb56", "8fcc", "3885", "ccff", "24c5", "270a", "c471",
    "2f8f", "6f0c", "d7f8", "f35f", "0f8d", "d604", "7a5e", "1ddb", "6316", "b0fe",
    "a13d", "d379", "d227", "dca0", "1860", "34f8", "2b5f", "9726", "4dc9", "04f4",
    "f243", "2544", "23e2", "2557", "6482", "8aff", "ff80", "cb87", "5ed9", "750f",
    "7c31", "8a01", "68ea", "bd8c", "d8fe", "b91f", "f79a", "b7d3", "8a76", "8096",
    "e24c", "1323", "55ff", "d566", "4ad7", "15e8", "6de0", "4776", "364b", "ca33",
    "7715", "bc28", "75e9", "192e", "cc51", "2ee1", "e398", "74e7", "c301", "1da4",
    "944e", "05f1", "2203", "a754", "4992", "7e68", "5392", "11dd", "a6ae", "ae25",
    "ad1b", "c8f6", "8ea0", "a039", "0b81", "fbc2", "d6c7", "d2a8", "e058", "6247",
    "cda4", "f37e", "dcd1", "0dd3", "ea21", "cbef", "94f7", "42ff", "906b", "a3f1",
    "a155", "8f1c", "6437", "58bb", "ee05", "d498", "752c", "6f33", "078b", "7c67",
    "0046", "d078", "d4fc", "c474", "e7b5", "e3fb", "e555", "e2a8", "b4a5", "3426",
    "9d0e", "6e74", "6675", "7b39", "3e11", "c624", "25c1", "991c", "6c95", "c155",
    "1714", "a20f", "3d93", "ae62", "8db8", "fabb", "a365", "d10d", "8efb", "0703",
    "0098", "c2f3", "fbec", "d534", "88fb", "412d", "b704", "c748", "5589", "e553",
    "b6d3", "e19f", "2a15", "f7b7", "dedc", "103f", "59d7", "4b98", "9a80", "0a14",
    "ad4f", "5690", "a81f", "e984", "e4d0", "0b22", "bb47", "2a81", "8179", "723a",
    "82a4", "56fd", "1ace", "88fc", "a783", "103e", "b26c", "9152", "229f", "bf57",
    "7265", "a88a", "f066", "2922", "059c", "56e6", "2cbb", "896b", "1de6", "7a08",
    "979b", "d9a8", "15d5", "a0cd", "14d6", "2a38", "cad4", "085f", "cfe9", "d31f",
    "4621", "1179", "e677", "8f66", "7e16", "4984", "f027", "c07a", "91b9", "f07f",
    "c98f", "6332", "64e5", "6730", "e6c1", "e38f", "0d81", "bc46", "c68c", "bc0f",
    "9eaa", "ad3e", "22a9", "4adf", "dc93", "5d62", "d5c0", "156d", "63b0", "5e36",
    "7e3d", "e675", "e720", "3265", "3c99", "16f7", "eb38", "529c", "76bf", "7700",
    "e6b7", "c710", "1145", "b6bf", "33a9", "b5dd", "71fc", "e923", "8bdf", "1f8c",
    "767e", "5e53", "fdbb", "7408", "da47", "7dad", "fb9f", "0285", "e422", "3dc8",
    "a1dc", "3003", "faa8", "60b3", "f590", "ed6f", "d14b", "47df", "fd33", "6151",
    "8607", "154f", "90da", "0342", "a8d8", "d106", "47a4", "455f", "1841", "db8d",
    "999f", "827b", "33ef", "374b", "ee12", "d603", "0d33", "37b2", "c1b6", "9a5f",
    "b885", "59e1", "91ae", "02fc", "1ff0", "cd96", "2781", "726b", "904d", "38b2",
    "574b", "706e", "256c", "cad9", "2167", "dd22", "59e7", "2c28", "711c", "d58f",
    "60c0", "dccb", "3196", "609d", "39d6", "3729", "1cbc", "cda1", "1687", "358e",
    "4719", "ba1b", "08ce", "e2d1", "460a", "3dbc", "e73b", "c384", "0939", "f82f",
    "e8e3", "f9f8", "1a43", "7950", "c199", "38d4", "1038", "bf35", "de4d", "0a0b",
    "d568", "f0df", "f082", "56ba", "019d", "96f9", "a712", "a7b7", "b1d8", "3c1c",
    "3648", "fb73", "f8f4", "430d", "089c", "3b5a", "30ee", "bbfa", "e109", "927b",
    "cec8", "ab4b", "d094", "a9b2", "66cc", "84f7", "d6b1", "32c0", "db1b", "4dcf",
    "3837", "dc76", "f800", "c67f", "a99f", "d15f", "ad2e", "08b1", "da57", "e3b2",
    "3ab3", "48e3", "1d2e", "f746", "d259", "ffef", "8baa", "2afe", "7eef", "c887",
    "8e81", "b0cd", "e353", "53b9", "766f", "86bf", "7b7d", "aadf", "3f42", "37aa",
    "f3c2", "dbda", "00b9", "edb4", "adf3", "e0c3", "2a7e", "83e4", "5f74", "4c5b",
    "ea33", "2685", "1f93", "5551", "8d4b", "f057", "0e5a", "9a73", "423e", "d468",
    "35f8", "f5ac", "6db7", "5064", "d37d", "7a97", "e7c3", "1b7b", "d07d", "7b9f",
    "b5a0", "cca3", "9b73", "b7aa", "4512", "9321", "fdc4", "2944", "f255", "28f8",
    "ff51", "09c4", "9e2a", "758b", "ac8c", "eafc", "adf8", "502b", "d7a3", "0ddd",
    "7d93", "1615", "384e", "b0c2", "558b", "3198", "379c", "e8d5", "57b2", "c9ac",
    "9130", "f3c9", "dc0a", "53ae", "584e", "4b28", "2022", "a869", "c007", "96ed",
    "e98f", "f8a6", "fb61", "7e79", "6462", "8c5c", "1704", "4823", "4bec", "0aed",
    "5aaf", "cdf8", "d186", "b84d", "908d", "b448", "e7e5", "3758", "6730", "607f",
    "4062", "8614", "0753", "8c41", "3f16", "9fc5", "9c58", "0df7", "c247", "5e31",
    "6841", "2cf8", "bd13", "7bdd", "ff79", "656e", "9caf", "4fa4", "9a0d", "055c",
    "f699", "99f7", "b529", "b9aa", "9e13", "5605", "6643", "5d23", "1616", "27e3",
    "6166", "724f", "a3a0", "b3ca", "b5bd", "a670", "5408", "ca6c", "6a43", "7170",
    "65a4", "386b", "361e", "d86a", "951e", "56d5", "37f2", "8560", "7238", "8a0b",
    "f613", "1e84", "fbf5", "6dcf", "3e66", "6b05", "198c", "701c", "c570", "2f8b",
    "907e", "6dd1", "1e77", "b7ba", "9a57", "03c9", "2a21", "2caa", "8aa5", "c5b0",
    "5106", "9026", "20db", "bd9e", "102c", "f5c1", "f4ba", "2548", "ae58", "84e9",
    "f4ab", "e712", "f236", "acec", "e7e8", "e086", "ae13", "43b2", "8e40", "2355",
    "4a36", "ef40", "96e7", "4167", "4677", "9289", "a5e4", "b529", "fcf0", "28e1",
    "0d9e", "3382", "0622", "d953", "b5ae", "02b5", "2131", "8630", "2452", "c037",
    "9d16", "3c9a", "ba93", "649e", "31f8", "3b35", "cc09", "c59c", "6780", "7a8b",
    "ce1f", "7f7f", "a95b", "dba8", "cfed", "5597", "ca18", "7119", "d055", "af23",
    "cf45", "0699", "48b7", "5d1a", "6bd0", "d9cd", "feaf", "1f81", "afa5", "19a8",
    "6b77", "745b", "5608", "ff88", "17a2", "8e4a", "e7ae", "9918", "5b8c", "af19",
    "949d", "be0a", "dbe7", "7959", "daf2", "e3a6", "a12f", "4054", "f840", "cf39",
    "037a", "9200", "ae87", "97a2", "debf", "e362", "a029", "dd29", "1c52", "c0ce",
    "0e76", "b70e", "a5bb", "123e", "a9eb", "8f64", "4293", "08f6", "2279", "455c",
    "5c96", "1409", "ed45", "ce1b", "cee8", "17f2", "69b6", "949d", "c05b", "95e9",
    "13e3", "ee73", "1ea7", "e9b3", "e577", "c710", "d495", "faec", "dece", "2ef3",
    "a010", "9de9", "b540", "669f", "5656", "2a3d", "38d4", "4d41", "b484", "5bea",
    "1ebb", "2a81", "aac2", "a0a7", "ded6", "b86d", "27d7", "ec2b", "b9da", "c79c",
    "7a88", "0450", "76bf", "b693", "f441", "beb6", "b2e6", "2882", "d503", "d5ec",
    "8e50", "7510", "c833", "2454", "1111", "104a", "17b3", "1e95", "6263", "8179",
    "2f96", "c196", "56d7", "114e", "ed00", "fc94", "90c8", "4d1d", "6943", "3994",
    "25eb", "daf5", "28d8", "4b2c", "0439", "386a", "26a4", "02f4", "1062", "6e3c",
    "a0a0", "c10d", "a4e1", "61df", "9439", "eba4", "6822", "6cd5", "5b5f", "f276",
    "f0a1", "2fcd", "8c94", "725f", "1dd5", "a879", "c20a", "4298", "89ec", "85f0",
    "5dd4", "dba9", "5a02", "25a7", "5a27", "a7ff", "35f0", "63e1", "d47f", "1819",
    "f7d5", "8539", "1453", "ae75", "4e7b", "d17d", "e436", "42b1", "9282", "a1bc",
    "2758", "2c4a", "fd37", "eac9", "e037", "b757", "bd63", "f5b6", "d824", "8f65",
    "b977", "5000", "c88a", "eedd", "4997", "5934", "ff8e", "bc1d", "7f4b", "455c",
    "25a7", "c525", "deb2", "fc7b", "7dd8", "e234", "7f17", "5423", "855b", "1d0a",
    "bd85", "105f", "fb09", "2818", "5950", "97a9", "f3b5", "f3fd", "c475", "bc44",
    "b7a0", "ff62", "7dcd", "431a", "1ac5", "6f06", "27ed", "2a1c", "266e", "f1a9",
    "4e0f", "782b", "4639", "e126", "1e56", "e8ad", "e00b", "7eb4", "7944", "62b9",
    "540a", "9979", "9344", "7e68", "4da5", "4f91", "9e03", "62d9", "b79f", "d37c",
    "426c", "80e7", "a480", "7ee4", "9b32", "d0ac", "28c7", "5452", "e735", "3137",
    "448e", "9c50", "938a", "c602", "2445", "9f59", "1adb", "f9f2", "c7b8", "2227",
    "fbaf", "7ea4", "70e5", "a3a6", "5eec", "49c0", "e45b", "4e9e", "18c9", "55d5",
    "f546", "8046", "617b", "6f40", "6552", "c9fc", "1acd", "1ea2", "2757", "cfa7",
    "beb9", "7b45", "8e2a", "9c14", "7b8f", "976b", "51d2", "d25b", "f225", "2d78",
    "937d", "0ba0", "75e6", "853c", "aef5", "c974", "c4e3", "5db7", "2877", "ab82",
    "1c0a", "06d9", "64b4", "a96e", "5d32", "234c", "0a20", "343a", "4450", "53e8",
    "d4f3", "224f", "9162", "e04a", "34f1", "f4bf", "a098", "dce9", "473c", "bff5",
    "e39e", "43f1", "166f", "5442", "7615", "c3b0", "76ba", "7fda", "b385", "e641",
    "bd5e", "d358", "c2bd", "b5e3", "8c3b", "9f13", "4122", "c094", "41d2", "0cb8",
    "f5a3", "bd7c", "7657", "2705", "ccf6", "eeba", "8659", "d0d4", "4a0e", "25c4",
    "7426", "d055", "057e", "2fb6", "28f6", "fb95", "c4ad", "53be", "cd07", "4281",
    "d31a", "ca11", "0c5f", "16d7", "46cf", "8353", "203c", "9c61", "0d40", "1bb7",
    "fcb4", "d6f4", "3f79", "0c2e", "d5b5", "f1f0", "88fd", "aa2f", "7fb2", "aebf",
    "6443", "83f1", "4995", "fdfd", "1609", "51c1", "162e", "f819", "1c5c", "1450",
    "4b83", "a2e2", "61e3", "5ff5", "228f", "ff1c", "b8da", "6b9c", "6eae", "dc9e",
    "c4cf", "9530", "2c30", "e5f6", "1a2b", "3cd2", "ce7f", "1eb1", "1167", "2acc",
    "7751", "248b", "b1ad", "8e38", "9a89", "af42", "3d55", "45a1", "4ee5", "774f",
    "baa9", "c4c7", "f040", "794a", "656e", "e3dc", "6237", "79b2", "b2d2", "d410",
    "bdd4", "af4f", "da86", "d9cc", "6cfc", "1478", "c040", "2a74", "b52f", "b203",
    "9db0", "92b6", "8694", "f432", "4372", "d435", "f4dc", "d279", "500e", "d1d1",
    "8e31", "b750", "354a", "d735", "fe13", "828f", "ce8c", "3180", "9894", "034b",
    "2a43", "89f2", "b595", "aa88", "fb1b", "6285", "a70c", "ab8f", "14bc", "ce28",
    "27ec", "1fb7", "cbb1", "8692", "559f", "0b20", "0d54", "69e5", "37ce", "53a7",
    "a79a", "0578", "548f", "675b", "da9e", "7bdd", "5445", "89f8", "4bf0", "9a7f",
    "ee7e", "6a61", "6284", "e8ab", "8273", "55fa", "370f", "d1f1", "e9e3", "e7d1",
    "5382", "d855", "9e1c", "6b84", "d18d", "e281", "20e4", "f0d6", "0888", "1450",
    "c128", "e8ae", "c4df", "4c95", "2506", "e22e", "b63b", "13a7", "3a0a", "9f92",
    "6cec", "ba69", "5bc1", "7c69", "5043", "0705", "f1b2", "8bb6", "3cfc", "3928",
    "b6de", "5582", "a70f", "322e", "4711", "42f5", "ac06", "189b", "b69d", "494c",
    "3e9c", "51aa", "21ed", "14e1", "1ac5", "83a5", "7b46", "2def", "5c48", "3c44",
    "4f59", "8c26", "f32a", "c381", "daca", "13ca", "5d8c", "71fb", "c28c", "cf8b",
    "2a6b", "439f", "dc58", "cdf3", "b942", "cc84", "63eb", "7cdb", "2127", "88de",
    "9fd9", "15c2", "f73a", "d9cf", "71ae", "34b7", "73a6", "282a", "7c9a", "8c21",
    "1842", "1dd8", "2d4f", "faa3", "94fa", "e0ec", "a0c8", "13a7", "6c1d", "8f85",
    "f2e9", "242d", "9acf", "8707", "528d", "c8ce", "2821", "e32b", "76f0", "9316",
    "c81f", "5e16", "64f9", "8246", "cfb8", "8997", "7d35", "026b", "4767", "7f38",
    "1b16", "2a53", "3b00", "9ba2", "aeab", "9a4f", "894d", "87e7", "1500", "a4d0",
    "3ec0", "ac33", "2436", "9f09", "9dec", "4764", "bdc3", "7240", "ead4", "ef41",
    "f318", "7c64", "c09b", "3735", "b948", "a300", "2900", "c242", "9496", "79e5",
    "0026", "b7a1", "81fb", "6efe", "3a5c", "d584", "c0a1", "c844", "fe67", "4242",
    "6291", "fca0", "e415", "e68b", "e49a", "7147", "489c", "5fdd", "8f5b", "a918",
    "07ee", "1f99", "362c", "5bcb", "ecef", "484d", "99ed", "449f", "61ab", "13ff",
    "ba87", "5a15", "c050", "3578", "6069", "e6d9", "c341", "80bb", "88f8", "7030",
    "86ab", "2cc9", "34aa", "3f9d", "31d3", "ddb7", "932d", "b28c", "a6b4", "f509",
    "1b3c", "b770", "f0ea", "5990", "ffac", "369c", "73d5", "0542", "38cb", "6162",
    "ad93", "5c42", "79d3", "db85", "bcf2", "7c98", "b4c5", "f704", "1993", "0621",
    "6b49", "cf39", "7e69", "befa", "2f5f", "aeab", "e22e", "3d5d", "2a2e", "da7c",
    "8b13", "d326", "543a", "f5e9", "d5ed", "74ff", "7ca8", "3dc0", "4e01", "314c",
    "e3b9", "6ecb", "b80b", "fabb", "2649", "66c5", "5ce6", "d4f9", "fb7b", "96aa",
    "def0", "50b4", "b978", "34c4", "2a4e", "2d23", "b073", "f1b5", "c9ef", "cabf",
    "210c", "d641", "76f2", "2695", "0315", "df92", "049c", "e222", "bd0d", "de46",
    "6829", "676a", "ab54", "9f0e", "cda6", "5c3d", "2236", "6f77", "009d", "734b",
    "775e", "a727", "ef58", "9475", "f9cd", "6b48", "a4a3", "6e2e", "e962", "e14b",
    "dad6", "c9f0", "0965", "f3cb", "b644", "a4d0", "664c", "7b4c", "29f0", "5664",
    "7dd6", "bbd9", "4755", "b76d", "0964", "d9a1", "4aa0", "0944", "e396", "4320",
    "1373", "75b2", "9178", "fad1", "9a7b", "e029", "8262", "07ca", "24c2", "9250",
    "c1c8", "d55f", "b878", "1ed0", "1bdc", "c991", "b4b4", "7cbf", "7f54", "ca43",
    "1dee", "143b", "f763", "32b3", "6d24", "1e3e", "99e9", "dbb5", "39e3", "3135",
    "5376", "b8cd", "c9b2", "e763", "9828", "6851", "345a", "77e5", "6395", "a15c",
    "07d2", "b9d6", "9c53", "0f6d", "68bd", "f77f", "2f7d", "7d7f", "90e1", "dd15",
    "11a2", "c0cf", "911b", "8c68", "43ef", "05a4", "679f", "47ea", "5f8a", "6836",
    "33f9", "e310", "db73", "d6d3", "5ccf", "5f89", "3d92", "3ea1", "75c1", "8a14",
    "2e95", "62bb", "0053", "490c", "786a", "6796", "0336", "165c", "4933", "420e",
    "1045", "df46", "1c00", "bd53", "b06e", "3f9c", "eb23", "2611", "9984", "a74a",
    "d1a3", "d598", "a836", "4dd9", "7c4d", "2c5b", "1da1", "080c", "b43c", "e4c9",
    "aef3", "e13a", "8bcf", "78d8", "c2b8", "6d8b", "8139", "b485", "7e0b", "f5d5",
    "403b", "57e6", "0c42", "f164", "49f3", "4cf5", "6eec", "6f03", "26a4", "7369"
>>

md5_last4(s) == MD5Tail[DecimalValue(s)]

\* str.rfind(ch): 0-based index of the last occurrence, -1 when there is none
rfind(s, ch) ==
    LET hits == {i \in 1..Len(s) : s[i] = ch}
    IN  IF hits = {} THEN -1
        ELSE (CHOOSE i \in hits : \A j \in hits : j <= i) - 1

\* s[a:b] for 0 <= a, 0 <= b (0-based, half-open; empty when a >= b)
Slice(s, a, b) ==
    SubSeq(s, a + 1, IF b < Len(s) THEN b ELSE Len(s))

Contains(s, ch) == \E i \in 1..Len(s) : s[i] = ch

\* ------------------------------------------------------------- load_labels
IsSpace(ch) == ch = " "

\* str.strip(): without the leading and the trailing whitespace
Strip(s) ==
    LET inked == {i \in 1..Len(s) : ~IsSpace(s[i])}
    IN  IF inked = {} THEN <<>>
        ELSE SubSeq(s, CHOOSE i \in inked : \A j \in inked : i <= j,
                       CHOOSE i \in inked : \A j \in inked : j <= i)

\* the places where sep starts in s
Occurrences(s, sep) ==
    {i \in 1..(Len(s) - Len(sep) + 1) : SubSeq(s, i, i + Len(sep) - 1) = sep}

\* str.split(sep, 1): the text before and after the first sep, or the text
\* alone when sep does not occur
SplitOnce(s, sep) ==
    LET at == Occurrences(s, sep)
    IN  IF at = {} THEN <<s>>
        ELSE LET i == CHOOSE i \in at : \A j \in at : i <= j
             IN  <<SubSeq(s, 1, i - 1), SubSeq(s, i + Len(sep), Len(s))>>

\* lines 15-24: what one line of labels.txt does: nothing ("skip"), a new
\* entry ("entry"), or the ValueError of unpacking a split that found no
\* ", " into two names ("error")
ParseLine(raw) ==
    LET line == Strip(raw)
    IN  IF line # <<>> /\ Contains(line, " ")
        THEN LET parts == SplitOnce(line, <<" ">>)
             IN  IF Contains(parts[2], ",")
                 THEN LET names == SplitOnce(parts[2], <<",", " ">>)
                      IN  IF Len(names) = 2
                          THEN [kind |-> "entry", bird_id |-> parts[1],
                                common |-> Strip(names[1]),
                                scientific |-> Strip(names[2])]
                          ELSE [kind |-> "error", bird_id |-> parts[1],
                                common |-> <<>>, scientific |-> <<>>]
                 ELSE [kind |-> "skip", bird_id |-> parts[1],
                       common |-> <<>>, scientific |-> <<>>]
        ELSE [kind |-> "skip", bird_id |-> <<>>,
              common |-> <<>>, scientific |-> <<>>]

\* ------------------------------------------------------------ pure helpers
\* str.find(ch): 0-based index of the first occurrence, -1 when there is none
find(s, ch) ==
    LET hits == {i \in 1..Len(s) : s[i] = ch}
    IN  IF hits = {} THEN -1
        ELSE (CHOOSE i \in hits : \A j \in hits : i <= j) - 1

\* the id taken after the first "(" instead of the last one
ExtractVideoIdFirstParen(filename) ==
    IF Contains(filename, "(") /\ Contains(filename, ")")
    THEN Slice(filename, find(filename, "(") + 1, rfind(filename, ")"))
    ELSE filename

\* lines 58-68: the bird id of a clip, from its stem
ExtractVideoId(filename) ==
    IF Contains(filename, "(") /\ Contains(filename, ")")
    THEN LET start_idx == rfind(filename, "(") + 1
             end_idx == rfind(filename, ")")
         IN  Slice(filename, start_idx, end_idx)
    ELSE filename

\* lines 79-81: the bird id of an image is its stem
ExtractImageId(filename) == filename

\* A dict entry of file_pairs: the facet keys 'video' and 'image' hold <<>>
\* when the key is absent and <<filename>> when it is present.
NoFiles == [video |-> <<>>, image |-> <<>>]

IndexOf(pairs, bird_id) ==
    IF \E i \in 1..Len(pairs) : pairs[i].bird_id = bird_id
    THEN CHOOSE i \in 1..Len(pairs) : pairs[i].bird_id = bird_id
    ELSE 0

\* a known bird id is taken out and filed again at the end
AddFacetMoveToEnd(pairs, bird_id, kind, filename) ==
    LET at == IndexOf(pairs, bird_id)
        new == [NoFiles EXCEPT ![kind] = <<filename>>]
    IN  IF at = 0
        THEN Append(pairs, [bird_id |-> bird_id, files |-> new])
        ELSE Append(SubSeq(pairs, 1, at - 1) \o SubSeq(pairs, at + 1, Len(pairs)),
                    [pairs[at] EXCEPT !.files[kind] = <<filename>>])

\* lines 70-75 and 83-88: file_pairs[bird_id][kind] = {...}; a new bird id is
\* appended (dicts keep insertion order), a known one keeps its position.
AddFacet(pairs, bird_id, kind, filename) ==
    LET at == IndexOf(pairs, bird_id)
        new == [NoFiles EXCEPT ![kind] = <<filename>>]
    IN  IF at = 0
        THEN Append(pairs, [bird_id |-> bird_id, files |-> new])
        ELSE [pairs EXCEPT ![at].files[kind] = <<filename>>]

\* the validation without its image check
MissingIgnoringImage(files, bird_id, lbls) ==
    (IF files.video = <<>> THEN <<"video/sound">> ELSE <<>>)
    \o (IF bird_id \notin DOMAIN lbls THEN <<"label">> ELSE <<>>)

\* lines 95-105: the facets one bird lacks, in the order the code appends them
Missing(files, bird_id, lbls) ==
    (IF files.video = <<>> THEN <<"video/sound">> ELSE <<>>)
    \o (IF files.image = <<>> THEN <<"image">> ELSE <<>>)
    \o (IF bird_id \notin DOMAIN lbls THEN <<"label">> ELSE <<>>)

\* the validation stopping at the first incomplete bird
MissingComponentsFailFast(pairs, lbls) ==
    LET checked == [i \in 1..Len(pairs) |->
                      [bird_id |-> pairs[i].bird_id,
                       missing |-> Missing(pairs[i].files, pairs[i].bird_id, lbls)]]
        Incomplete(r) == r.missing # <<>>
        all == SelectSeq(checked, Incomplete)
    IN  SubSeq(all, 1, 1)

\* lines 92-108: one report line per incomplete bird, in file_pairs order
MissingComponents(pairs, lbls) ==
    LET checked == [i \in 1..Len(pairs) |->
                      [bird_id |-> pairs[i].bird_id,
                       missing |-> Missing(pairs[i].files, pairs[i].bird_id, lbls)]]
        Incomplete(r) == r.missing # <<>>
    IN  SelectSeq(checked, Incomplete)

\* the retry as a fixed jump: the attempts counter is left out of the sum
ThreeDigitIdFixedJump(index, offset, tries) == ZeroPad3(index + offset)

\* the number hashed is one ahead of the sequence number
ThreeDigitIdOffByOne(index, offset, tries) == ZeroPad3(index + offset + tries + 1)

\* line 137: the string that is hashed
ThreeDigitId(index, offset, tries) == ZeroPad3(index + offset + tries)

\* no collision test
AlwaysFree(code, used) == TRUE

\* line 144: the collision test
IsFree(code, used) == code \notin used

\* the run given up at the bound, and also when the first retry was needed
ExhaustedOrRetried(tries) == tries >= max_attempts \/ tries = 1

\* line 152: the test after the loop
Exhausted(tries) == tries >= max_attempts

\* line 135: the condition of the while loop
WithinAttempts(tries) == tries < max_attempts

\* lines 131-132: the locals when the loop is entered; three_digit_id and
\* bird_code still hold what the previous bird left in them
LoopEntry(tid, code) ==
    [attempts |-> 0, init |-> 0, three_digit_id |-> tid, bird_code |-> code,
     left |-> FALSE, found |-> FALSE]

\* lines 135-150: one evaluation of the loop condition and, when it holds,
\* one pass through the body.  left: the loop is over; found: by the break
\* of line 146.  A loop that is over stays as it is.
LoopPass(s, index, used) ==
    IF s.left THEN s
    ELSE IF ~WithinAttempts(s.attempts) THEN [s EXCEPT !.left = TRUE]
    ELSE LET tid == ThreeDigitId(index, s.init, s.attempts)
             code == md5_last4(tid)
         IN  IF IsFree(code, used)
             THEN [attempts |-> s.attempts, init |-> s.init,
                   three_digit_id |-> tid, bird_code |-> code,
                   left |-> TRUE, found |-> TRUE]
             ELSE [attempts |-> s.attempts + 1, init |-> CollisionOffset,
                   three_digit_id |-> tid, bird_code |-> code,
                   left |-> FALSE, found |-> FALSE]

RECURSIVE Passes(_, _, _, _)
\* n evaluations of the loop condition in a row, from the locals s (halved,
\* so that the nesting stays shallow)
Passes(s, n, index, used) ==
    IF s.left \/ n = 0 THEN s
    ELSE IF n = 1 THEN LoopPass(s, index, used)
    ELSE LET half == Passes(s, n \div 2, index, used)
         IN  Passes(half, n - (n \div 2), index, used)

\* lines 131-150: the while loop.  attempts grows by one in every pass that
\* does not leave, so the condition is evaluated max_attempts + 1 times at
\* most; the record holds the locals when the loop is over.
CodeLoop(index, used, tid, code) ==
    Passes(LoopEntry(tid, code), max_attempts + 1, index, used)

\* lines 157-158: a copy of the label entry with the id field added
BirdData(lbls, bird_id, tid) ==
    [common |-> lbls[bird_id].common,
     scientific |-> lbls[bird_id].scientific,
     id |-> tid]

\* bird_data = labels[bird_id] without the copy: the id lands in the label entry
LabelsAliased(lbls, bird_id, tid) ==
    [lbls EXCEPT ![bird_id] =
        [common |-> lbls[bird_id].common,
         scientific |-> lbls[bird_id].scientific,
         id |-> tid]]

\* line 157: labels[bird_id].copy() leaves the label mapping as it was
LabelsAfterCopy(lbls, bird_id, tid) == lbls

\* line 159: birdmap[bird_code] = bird_data
SetEntry(map, code, data) ==
    [c \in (DOMAIN map) \cup {code} |-> IF c = code THEN data ELSE map[c]]

\* the abort only when both components failed
BothFailed(mp3, jpg) == ~mp3 /\ ~jpg

\* line 193: some component failed
ComponentFailed(mp3, jpg) == ~(mp3 /\ jpg)

\* no clean-up
KeepFile(dir, code) == dir

\* lines 202-207: os.remove of the file when it exists
RemoveIfExists(dir, code) == dir \ {code}

\* the catalog written inside the loop, after the first bird
SaveAfterFirst(k, n) == "save"

\* line 128: the for loop goes on with the next pair, or ends and line 214 runs
AfterItem(k, n) == IF k < n THEN "assign" ELSE "save"

\* ------------------------------------------------------------------- state
VARIABLES
    labels_txt,          \* labels.txt: whether it exists, and its lines not yet read
    lines_read,          \* the lines the loop of line 14 has gone through
    labels,              \* load_labels(): bird id -> [common, scientific]
    video_files,         \* glob("videos/*.mp4"), as stems, in listing order
    image_files,         \* glob("images_cropped/*.png"), as stems
    file_pairs,          \* bird id -> facets, in insertion order
    missing_components,  \* the validation report
    bird_index,          \* the sequence number of the bird being processed
    used_codes,          \* codes issued so far
    birdmap,             \* the catalog accumulator: code -> bird_data
    scan,                \* position of the loops of lines 57 and 78 in the listings
    cur,                 \* position of the for loop of line 128 in file_pairs
    attempts, init, three_digit_id, bird_code,   \* locals of the code loop
    mp3_success, jpg_success,
    sounds,              \* codes c with a file sounds/{c}.mp3
    images,              \* codes c with a file images/{c}.jpg
    birdmap_json,        \* the documents written to birdmap.json, in order
    calls,               \* the ffmpeg and copy2 invocations and how each ended
    issued,              \* per processed bird: the locals when its code was bound
    pc,                  \* position in process_videos
    result               \* which exit process_videos took

vars == <<labels_txt, lines_read, labels, video_files, image_files, file_pairs, missing_components,
          bird_index, used_codes, birdmap, scan, cur, attempts, init, three_digit_id,
          bird_code, mp3_success, jpg_success, sounds, images, birdmap_json,
          calls, issued, pc, result>>

inputs == <<labels_txt, lines_read, labels, video_files, image_files>>
codeLocals == <<attempts, init, three_digit_id, bird_code>>
disk == <<sounds, images, birdmap_json>>

EmptyMap == [c \in {} |-> <<>>]

\* ------------------------------------------------------------------ inputs
RECURSIVE StemsOfLen(_)
StemsOfLen(k) ==
    IF k = 0 THEN {<<>>}
    ELSE {Append(s, ch) : s \in StemsOfLen(k - 1), ch \in Alphabet}

\* every non-empty stem of at most n characters
Stems(n) == UNION {StemsOfLen(k) : k \in 1..n}

RECURSIVE ListsOfLen(_, _)
\* a directory listing holds each name once, in any order
ListsOfLen(S, k) ==
    IF k = 0 THEN {<<>>}
    ELSE UNION {{Append(l, x) : x \in S \ {l[i] : i \in 1..Len(l)}} :
                l \in ListsOfLen(S, k - 1)}

Lists(S, n) == UNION {ListsOfLen(S, k) : k \in 0..n}

Ids == {<<"7">>, <<"8">>}

\* stems in the documented clip format "...(ID)", with an earlier
\* parenthesised word, and bare ids
FormatStems ==
    {<<"(">> \o id \o <<")">> : id \in Ids}
    \cup {<<"(", "8", ")", "(">> \o id \o <<")">> : id \in Ids}
    \cup Ids

ImageStems == Ids

LabelEntries ==
    {[common |-> "Blue Tit", scientific |-> "Cyanistes caeruleus"],
     [common |-> "Robin", scientific |-> "Erithacus rubecula"]}

LabelMaps == UNION {[D -> LabelEntries] : D \in SUBSET Ids}

\* the large input: birds 1..BulkItems, each with clip "(i).mp4", image
\* "i.png" and a label line
BulkVideos == [i \in 1..BulkItems |-> <<"(">> \o Digits(i) \o <<")">>]
BulkImages == [i \in 1..BulkItems |-> Digits(i)]
BulkLabels ==
    [id \in {Digits(i) : i \in 1..BulkItems} |->
        IF DecimalValue(id) % 2 = 1
        THEN [common |-> "Blue Tit", scientific |-> "Cyanistes caeruleus"]
        ELSE [common |-> "Robin", scientific |-> "Erithacus rubecula"]]

\* one clip with any stem
InputsScan ==
    /\ video_files \in {<<s>> : s \in Stems(MaxLen)}
    /\ image_files \in Lists(ImageStems, MaxImages)
    /\ labels \in LabelMaps

\* several clips and images over the same few ids
InputsJoin ==
    /\ video_files \in Lists(FormatStems, MaxVideos)
    /\ image_files \in Lists(ImageStems, MaxImages)
    /\ labels \in LabelMaps

InputsBulk ==
    /\ video_files = BulkVideos
    /\ image_files = BulkImages
    /\ labels = BulkLabels

\* what process_videos starts from, whatever the inputs
Fresh ==
    /\ file_pairs = <<>>
    /\ missing_components = <<>>
    /\ bird_index = 1
    /\ used_codes = {}
    /\ birdmap = EmptyMap
    /\ scan = 0
    /\ cur = 0
    /\ attempts = 0
    /\ init = 0
    /\ three_digit_id = <<>>
    /\ bird_code = ""
    /\ mp3_success = FALSE
    /\ jpg_success = FALSE
    /\ sounds = {}
    /\ images = {}
    /\ birdmap_json = <<>>
    /\ calls = <<>>
    /\ issued = <<>>
    /\ result = "running"

\* the state when process_videos is entered, labels loaded (labels.txt read
\* to its end and closed) and folders listed
Init ==
    /\ InputsScan \/ InputsJoin \/ InputsBulk
    /\ labels_txt = [exists |-> TRUE, lines |-> <<>>]
    /\ lines_read = <<>>
    /\ Fresh
    /\ pc = "start"

\* ----------------------------------------------------------------- actions
\* lines 34-54: early exit when both listings are empty, else the join starts
ListFiles ==
    /\ pc = "start"
    /\ IF video_files = <<>> /\ image_files = <<>>
       THEN /\ pc' = "done"
            /\ result' = "no_files"
       ELSE /\ pc' = IF video_files # <<>> THEN "videos" ELSE "images"
            /\ UNCHANGED result
    /\ scan' = 1
    /\ UNCHANGED <<inputs, file_pairs, missing_components, bird_index, used_codes,
                   birdmap, cur, codeLocals, mp3_success, jpg_success, disk,
                   calls, issued>>

\* lines 57-75: one iteration of the loop over video_files
AddVideo ==
    /\ pc = "videos"
    /\ LET filename == video_files[scan]
       IN  file_pairs' = AddFacet(file_pairs, ExtractVideoId(filename), "video", filename)
    /\ IF scan < Len(video_files)
       THEN scan' = scan + 1 /\ UNCHANGED pc
       ELSE scan' = 1 /\ pc' = IF image_files # <<>> THEN "images" ELSE "validate"
    /\ UNCHANGED <<inputs, missing_components, bird_index, used_codes, birdmap,
                   cur, codeLocals, mp3_success, jpg_success, disk, calls,
                   issued, result>>

\* lines 78-88: one iteration of the loop over image_files
AddImage ==
    /\ pc = "images"
    /\ LET filename == image_files[scan]
       IN  file_pairs' = AddFacet(file_pairs, ExtractImageId(filename), "image", filename)
    /\ IF scan < Len(image_files)
       THEN scan' = scan + 1 /\ UNCHANGED pc
       ELSE scan' = 1 /\ pc' = "validate"
    /\ UNCHANGED <<inputs, missing_components, bird_index, used_codes, birdmap,
                   cur, codeLocals, mp3_success, jpg_success, disk, calls,
                   issued, result>>

\* line 111: the gate
Cancelled(report) == report # <<>>

\* lines 90-126: validation, then either the cancellation or the loop set-up
Validate ==
    /\ pc = "validate"
    /\ missing_components' = MissingComponents(file_pairs, labels)
    /\ IF Cancelled(missing_components')
       THEN /\ pc' = "done"
            /\ result' = "cancelled"
            /\ UNCHANGED <<cur, bird_index, used_codes>>
       ELSE /\ pc' = "assign"
            /\ cur' = 1
            /\ bird_index' = 1
            /\ used_codes' = {}
            /\ UNCHANGED result
    /\ UNCHANGED <<inputs, file_pairs, scan, birdmap, codeLocals, mp3_success,
                   jpg_success, disk, calls, issued>>

\* lines 128-164: the code loop for file_pairs[cur]; on exhaustion the run
\* returns, else the catalog entry of the issued code is stored
AssignCode ==
    /\ pc = "assign"
    /\ LET bird_id == file_pairs[cur].bird_id
           loop == CodeLoop(bird_index, used_codes, three_digit_id, bird_code)
       IN  /\ attempts' = loop.attempts
           /\ init' = loop.init
           /\ three_digit_id' = loop.three_digit_id
           /\ bird_code' = loop.bird_code
           /\ used_codes' = IF loop.found THEN used_codes \cup {loop.bird_code}
                            ELSE used_codes
           /\ IF Exhausted(loop.attempts)
              THEN /\ pc' = "done"
                   /\ result' = "exhausted"
                   /\ UNCHANGED <<labels, birdmap, issued, mp3_success, jpg_success>>
              ELSE /\ birdmap' = SetEntry(birdmap, loop.bird_code,
                                   BirdData(labels, bird_id, loop.three_digit_id))
                   /\ labels' = LabelsAfterCopy(labels, bird_id, loop.three_digit_id)
                   /\ issued' = Append(issued,
                                   [bird_id |-> bird_id,
                                    bird_index |-> bird_index,
                                    attempts |-> loop.attempts,
                                    three_digit_id |-> loop.three_digit_id,
                                    bird_code |-> loop.bird_code])
                   /\ mp3_success' = FALSE
                   /\ jpg_success' = FALSE
                   /\ pc' = "audio"
                   /\ UNCHANGED result
    /\ UNCHANGED <<labels_txt, lines_read, video_files, image_files, file_pairs, scan,
                   missing_components, bird_index, cur, disk, calls>>

\* What a production step can leave behind: the file and success, an
\* exception and no file, or an exception after the file was created.
StepOutcomes == {"ok", "error", "error_with_file"}

\* lines 171-179: ffmpeg writes sounds/{bird_code}.mp3
ExtractAudio ==
    /\ pc = "audio"
    /\ \E outcome \in StepOutcomes :
          /\ mp3_success' = (outcome = "ok")
          /\ sounds' = IF outcome = "error" THEN sounds ELSE sounds \cup {bird_code}
          /\ calls' = Append(calls, [step |-> "ffmpeg", item |-> cur,
                                     code |-> bird_code, ok |-> (outcome = "ok")])
    /\ pc' = "image"
    /\ UNCHANGED <<inputs, file_pairs, scan, missing_components, bird_index, used_codes,
                   birdmap, cur, codeLocals, jpg_success, images, birdmap_json,
                   issued, result>>

\* lines 185-190: shutil.copy2 writes images/{bird_code}.jpg
CopyImage ==
    /\ pc = "image"
    /\ \E outcome \in StepOutcomes :
          /\ jpg_success' = (outcome = "ok")
          /\ images' = IF outcome = "error" THEN images ELSE images \cup {bird_code}
          /\ calls' = Append(calls, [step |-> "copy2", item |-> cur,
                                     code |-> bird_code, ok |-> (outcome = "ok")])
    /\ pc' = "check"
    /\ UNCHANGED <<inputs, file_pairs, scan, missing_components, bird_index, used_codes,
                   birdmap, cur, codeLocals, mp3_success, sounds, birdmap_json,
                   issued, result>>

\* lines 192-212: on a failure the item's files are removed and the run
\* returns; else the sequence number advances and the loop goes on
CheckComponents ==
    /\ pc = "check"
    /\ IF ComponentFailed(mp3_success, jpg_success)
       THEN /\ sounds' = RemoveIfExists(sounds, bird_code)
            /\ images' = RemoveIfExists(images, bird_code)
            /\ pc' = "done"
            /\ result' = "failed"
            /\ UNCHANGED <<bird_index, cur>>
       ELSE /\ bird_index' = bird_index + 1
            /\ pc' = AfterItem(cur, Len(file_pairs))
            /\ cur' = IF cur < Len(file_pairs) THEN cur + 1 ELSE cur
            /\ UNCHANGED <<sounds, images, result>>
    /\ UNCHANGED <<inputs, file_pairs, scan, missing_components, used_codes, birdmap,
                   codeLocals, mp3_success, jpg_success, birdmap_json, calls, issued>>

\* lines 214-222: json.dump of the accumulator; a failure is only reported
SaveBirdmap ==
    /\ pc = "save"
    /\ \E written \in BOOLEAN :
          /\ birdmap_json' = IF written THEN Append(birdmap_json, birdmap)
                             ELSE birdmap_json
          /\ result' = IF written THEN "saved" ELSE "save_failed"
    /\ pc' = "done"
    /\ UNCHANGED <<inputs, file_pairs, scan, missing_components, bird_index, used_codes,
                   birdmap, cur, codeLocals, mp3_success, jpg_success, sounds,
                   images, calls, issued>>

Next ==
    \/ ListFiles
    \/ AddVideo
    \/ AddImage
    \/ Validate
    \/ AssignCode
    \/ ExtractAudio
    \/ CopyImage
    \/ CheckComponents
    \/ SaveBirdmap

Spec == Init /\ [][Next]_vars

\* ---------------------------------------------------- load_labels, stepwise
LabelChars == {"7", " ", ",", "a"}

RECURSIVE LinesOfLen(_)
LinesOfLen(k) ==
    IF k = 0 THEN {<<>>}
    ELSE {Append(s, ch) : s \in LinesOfLen(k - 1), ch \in LabelChars}

\* every line of at most n characters, the empty one included
Lines(n) == UNION {LinesOfLen(k) : k \in 0..n}

\* lines in the documented format "<id> <common>, <scientific>", a line
\* without a comma, an empty line, a line whose comma has no space after it
SampleLines ==
    {<<"7", " ", "a", ",", " ", "a">>,
     <<"7", " ", "a", "a", ",", " ", "7">>,
     <<"8", " ", "a", ",", " ", "a">>,
     <<"7", " ", "a">>,
     <<>>,
     <<"7", " ", "a", ",", "a">>}

RECURSIVE FilesOfLen(_)
\* a file may hold the same line twice
FilesOfLen(k) ==
    IF k = 0 THEN {<<>>}
    ELSE {Append(f, l) : f \in FilesOfLen(k - 1), l \in SampleLines}

LabelFiles ==
    {<<l>> : l \in Lines(MaxLineLen)} \cup UNION {FilesOfLen(k) : k \in 0..MaxLines}

\* the state when load_labels is entered (line 31 calling line 9)
InitLabels ==
    /\ labels_txt \in {[exists |-> FALSE, lines |-> <<>>]}
                      \cup {[exists |-> TRUE, lines |-> f] : f \in LabelFiles}
    /\ lines_read = <<>>
    /\ labels = EmptyMap
    /\ video_files = <<>>
    /\ image_files = <<>>
    /\ Fresh
    /\ pc = "load"

untouchedByLoad ==
    <<video_files, image_files, file_pairs, scan, missing_components, bird_index,
      used_codes, birdmap, cur, codeLocals, mp3_success, jpg_success, disk,
      calls, issued>>

\* lines 11-13 and 25-27: the empty mapping, the open, FileNotFoundError
\* caught and reported
OpenLabels ==
    /\ pc = "load"
    /\ labels' = EmptyMap
    /\ pc' = IF labels_txt.exists /\ labels_txt.lines # <<>> THEN "lines" ELSE "loaded"
    /\ UNCHANGED <<labels_txt, lines_read, result, untouchedByLoad>>

\* lines 14-24: one iteration of the loop over the lines; the ValueError is
\* not caught by the except of line 25 and ends the run
ReadLine ==
    /\ pc = "lines"
    /\ LET raw == Head(labels_txt.lines)
           rest == Tail(labels_txt.lines)
           parsed == ParseLine(raw)
       IN  /\ labels_txt' = [labels_txt EXCEPT !.lines = rest]
           /\ lines_read' = Append(lines_read, raw)
           /\ IF parsed.kind = "error"
              THEN /\ pc' = "done"
                   /\ result' = "ValueError"
                   /\ UNCHANGED labels
              ELSE /\ labels' = IF parsed.kind = "entry"
                                THEN SetEntry(labels, parsed.bird_id,
                                              [common |-> parsed.common,
                                               scientific |-> parsed.scientific])
                                ELSE labels
                   /\ pc' = IF rest # <<>> THEN "lines" ELSE "loaded"
                   /\ UNCHANGED result
    /\ UNCHANGED untouchedByLoad

NextLabels ==
    \/ OpenLabels
    \/ ReadLine

SpecLabels == InitLabels /\ [][NextLabels]_vars

\* ------------------------------------------------------------ the huge input
\* A folder so large that the search of lines 135-150 comes to its end:
\* birds 1..HugeItems, each with clip "(i).mp4", image "i.png" and a label line
HugeItems == 11805

HugeVideos == [i \in 1..HugeItems |-> <<"(">> \o Digits(i) \o <<")">>]
HugeImages == [i \in 1..HugeItems |-> Digits(i)]
HugeLabels ==
    [id \in {Digits(i) : i \in 1..HugeItems} |->
        IF DecimalValue(id) % 2 = 1
        THEN [common |-> "Blue Tit", scientific |-> "Cyanistes caeruleus"]
        ELSE [common |-> "Robin", scientific |-> "Erithacus rubecula"]]

\* The value of attempts when the loop of lines 135-150 left with a code, for
\* each of the first birds of the huge input in turn (entry i is the number
\* of candidates of bird i that collided; obtained by running that loop)
HugeAttempts ==
<<
    0, 0, 0, 0, 0, 0, 0, 0, 0, 0, 0, 0, 0, 0, 0, 0, 0, 0, 0, 0, 0, 0, 0, 0, 0,
    0, 0, 0, 0, 0, 0, 0, 0, 0, 0, 0, 0, 0, 0, 0, 0, 0, 0, 0, 0, 0, 0, 0, 0, 0,
    0, 0, 0, 0, 0, 0, 0, 0, 0, 0, 0, 0, 0, 0, 0, 0, 0, 0, 0, 0, 0, 0, 0, 0, 0,
    0, 0, 0, 0, 0, 0, 0, 0, 0, 0, 0, 0, 0, 0, 0, 0, 0, 0, 0, 0, 0, 0, 1, 0, 0,
    0, 0, 0, 0, 0, 0, 0, 0, 0, 0, 0, 0, 0, 0, 0, 0, 0, 0, 0, 0, 0, 0, 0, 0, 0,
    0, 0, 0, 0, 0, 0, 0, 0, 0, 0, 0, 0, 0, 0, 0, 0, 0, 0, 0, 0, 0, 0, 0, 0, 0,
    0, 0, 0, 0, 0, 0, 0, 0, 0, 0, 0, 0, 0, 0, 0, 0, 0, 0, 0, 0, 0, 0, 0, 0, 0,
    0, 0, 0, 0, 0, 0, 0, 0, 0, 0, 0, 0, 0, 0, 0, 0, 0, 0, 0, 0, 0, 0, 0, 0, 0,
    0, 0, 0, 0, 0, 0, 0, 0, 0, 0, 0, 0, 0, 0, 0, 0, 0, 0, 0, 0, 0, 0, 0, 0, 0,
    0, 0, 0, 0, 0, 0, 0, 0, 0, 0, 0, 0, 0, 0, 0, 0, 0, 0, 0, 0, 0, 0, 0, 0, 0,
    0, 0, 0, 0, 0, 0, 0, 0, 0, 0, 0, 0, 0, 0, 0, 0, 0, 0, 0, 0, 0, 0, 0, 0, 0,
    0, 0, 0, 0, 0, 0, 0, 0, 0, 0, 0, 0, 0, 0, 0, 0, 0, 0, 0, 0, 0, 0, 0, 1, 0,
    0, 0, 0, 0, 0, 0, 0, 0, 0, 0, 0, 0, 0, 0, 0, 0, 0, 0, 0, 0, 0, 0, 0, 0, 0,
    0, 0, 0, 0, 0, 1, 0, 0, 0, 0, 0, 0, 0, 0, 0, 0, 0, 0, 0, 0, 0, 0, 0, 0, 0,
    0, 0, 0, 0, 0, 0, 0, 0, 0, 0, 0, 0, 0, 0, 0, 0, 0, 0, 0, 0, 0, 0, 0, 0, 0,
    0, 0, 0, 0, 0, 0, 1, 0, 0, 0, 0, 0, 0, 0, 0, 0, 0, 0, 0, 0, 0, 0, 0, 0, 0,
    0, 0, 0, 0, 0, 0, 0, 0, 0, 0, 0, 0, 0, 0, 0, 0, 0, 0, 0, 0, 0, 0, 0, 0, 0,
    0, 0, 0, 0, 0, 0, 0, 0, 0, 0, 0, 0, 0, 0, 0, 0, 0, 0, 0, 0, 0, 0, 0, 0, 0,
    0, 0, 0, 0, 0, 0, 0, 0, 0, 0, 0, 0, 0, 0, 0, 0, 0, 0, 0, 0, 0, 0, 0, 0, 0,
    0, 0, 0, 0, 0, 0, 0, 0, 0, 0, 0, 0, 0, 0, 0, 0, 0, 0, 0, 0, 0, 0, 0, 0, 1,
    0, 0, 0, 0, 0, 0, 0, 0, 0, 0, 0, 0, 0, 0, 0, 0, 0, 0, 0, 0, 0, 0, 0, 0, 0,
    0, 0, 0, 0, 0, 0, 1, 0, 0, 0, 0, 0, 0, 0, 0, 0, 0, 0, 0, 0, 0, 0, 0, 0, 0,
    0, 0, 0, 0, 0, 0, 0, 0, 0, 0, 0, 0, 0, 0, 0, 0, 0, 0, 0, 0, 0, 0, 0, 0, 0,
    0, 0, 0, 0, 0, 0, 0, 1, 0, 0, 0, 0, 0, 0, 0, 0, 0, 0, 0, 0, 0, 0, 0, 0, 0,
    0, 0, 0, 0, 0, 0, 0, 0, 0, 0, 0, 0, 0, 0, 0, 0, 0, 0, 0, 0, 0, 0, 0, 0, 0,
    0, 0, 0, 0, 0, 0, 0, 0, 0, 0, 0, 0, 0, 0, 0, 0, 0, 0, 0, 0, 0, 0, 0, 0, 0,
    0, 0, 0, 0, 0, 0, 0, 0, 0, 0, 0, 0, 0, 0, 0, 0, 0, 0, 0, 0, 0, 0, 0, 0, 0,
    0, 0, 0, 0, 0, 1, 0, 0, 0, 0, 0, 0, 0, 0, 0, 0, 0, 0, 0, 0, 0, 0, 0, 0, 0,
    1, 0, 0, 0, 0, 0, 0, 0, 0, 0, 0, 0, 0, 0, 0, 0, 0, 0, 0, 0, 0, 0, 0, 0, 0,
    0, 0, 0, 0, 0, 0, 0, 1, 0, 0, 0, 0, 0, 0, 0, 0, 0, 0, 0, 0, 0, 0, 0, 0, 0,
    0, 0, 0, 0, 0, 0, 0, 0, 0, 0, 0, 0, 0, 0, 0, 0, 0, 0, 0, 0, 0, 0, 0, 0, 0,
    0, 0, 0, 0, 0, 0, 0, 0, 1, 0, 0, 0, 0, 0, 0, 0, 0, 0, 0, 0, 0, 0, 0, 0, 0,
    0, 0, 0, 0, 0, 0, 0, 0, 0, 0, 0, 0, 0, 0, 0, 0, 0, 0, 0, 0, 0, 0, 0, 0, 0,
    1, 0, 0, 0, 0, 0, 0, 0, 0, 0, 0, 0, 0, 0, 0, 0, 0, 0, 0, 0, 0, 0, 0, 0, 0,
    0, 0, 0, 0, 0, 0, 0, 0, 0, 0, 0, 0, 0, 0, 0, 0, 0, 0, 0, 0, 0, 0, 0, 0, 0,
    0, 0, 0, 0, 0, 0, 1, 0, 0, 0, 0, 0, 0, 0, 0, 0, 0, 0, 0, 0, 0, 0, 0, 0, 0,
    0, 1, 0, 0, 0, 0, 0, 0, 0, 0, 0, 0, 0, 0, 0, 0, 0, 0, 0, 0, 0, 0, 0, 0, 0,
    0, 0, 0, 0, 0, 0, 0, 0, 1, 0, 0, 0, 0, 0, 0, 0, 0, 0, 0, 0, 0, 0, 0, 0, 0,
    0, 0, 1, 0, 0, 0, 0, 0, 0, 0, 0, 0, 0, 0, 0, 0, 0, 0, 0, 0, 0, 0, 0, 0, 0,
    0, 0, 0, 0, 0, 0, 0, 0, 0, 1, 0, 0, 0, 0, 0, 0, 0, 0, 0, 0, 0, 0, 0, 0, 0,
    0, 0, 0, 0, 0, 0, 0, 0, 0, 0, 0, 0, 0, 0, 0, 0, 0, 0, 0, 0, 0, 0, 0, 0, 0,
    0, 1, 0, 0, 0, 0, 0, 0, 0, 0, 0, 0, 0, 0, 0, 0, 0, 0, 0, 0, 0, 0, 0, 0, 0,
    0, 0, 0, 0, 0, 0, 0, 0, 0, 0, 0, 0, 0, 0, 0, 0, 0, 0, 0, 0, 0, 0, 0, 0, 0,
    0, 0, 0, 0, 0, 0, 0, 1, 0, 0, 0, 0, 0, 0, 0, 0, 0, 0, 0, 0, 0, 0, 0, 0, 0,
    0, 0, 1, 0, 0, 0, 0, 0, 0, 0, 0, 0, 0, 0, 0, 0, 0, 0, 1, 0, 0, 0, 0, 0, 0,
    0, 0, 0, 0, 0, 0, 0, 0, 0, 1, 0, 0, 0, 0, 0, 0, 0, 0, 0, 0, 0, 0, 0, 0, 0,
    0, 0, 0, 1, 0, 0, 0, 0, 0, 0, 0, 0, 0, 0, 0, 0, 0, 0, 0, 0, 0, 0, 0, 0, 0,
    0, 0, 0, 0, 0, 0, 0, 0, 0, 0, 1, 0, 0, 0, 0, 0, 0, 0, 0, 0, 0, 0, 0, 0, 0,
    0, 0, 0, 0, 0, 0, 0, 0, 0, 0, 0, 0, 0, 0, 0, 0, 0, 0, 0, 0, 0, 0, 0, 0, 0,
    0, 1, 1, 0, 0, 0, 0, 0, 0, 0, 0, 0, 0, 0, 0, 0, 0, 0, 0, 0, 1, 0, 0, 0, 0,
    0, 0, 1, 0, 0, 0, 0, 0, 0, 0, 0, 0, 0, 0, 0, 0, 0, 0, 0, 0, 0, 0, 0, 0, 0,
    0, 0, 0, 0, 0, 0, 0, 0, 1, 0, 0, 0, 0, 0, 0, 0, 0, 0, 0, 0, 0, 0, 0, 0, 0,
    0, 0, 0, 1, 0, 0, 0, 0, 0, 0, 0, 0, 0, 0, 0, 0, 0, 0, 0, 1, 0, 0, 0, 0, 0,
    0, 0, 0, 0, 0, 0, 0, 0, 0, 0, 1, 0, 0, 0, 0, 0, 0, 0, 0, 0, 0, 0, 0, 0, 0,
    0, 0, 0, 0, 1, 0, 0, 0, 0, 0, 0, 0, 0, 0, 0, 0, 0, 0, 0, 0, 0, 0, 0, 0, 0,
    0, 0, 0, 0, 0, 0, 0, 0, 0, 0, 0, 1, 0, 0, 0, 0, 0, 0, 0, 0, 0, 0, 0, 0, 0,
    0, 0, 0, 0, 0, 0, 0, 0, 0, 0, 0, 0, 0, 0, 0, 0, 0, 0, 0, 0, 0, 0, 0, 0, 0,
    0, 0, 1, 1, 0, 0, 0, 0, 0, 0, 0, 0, 0, 0, 0, 0, 0, 0, 0, 0, 0, 1, 0, 0, 0,
    0, 0, 0, 1, 0, 0, 1, 0, 0, 0, 0, 0, 0, 0, 0, 0, 0, 0, 0, 0, 0, 0, 0, 0, 0,
    0, 0, 0, 0, 0, 0, 0, 1, 0, 3, 0, 0, 0, 0, 0, 0, 0, 0, 0, 0, 0, 0, 0, 0, 1,
    0, 0, 0, 0, 1, 1, 0, 0, 0, 0, 0, 0, 0, 0, 0, 0, 0, 0, 0, 0, 1, 0, 0, 0, 0,
    0, 0, 0, 0, 0, 0, 0, 0, 0, 0, 0, 1, 0, 1, 0, 0, 0, 0, 0, 0, 0, 0, 0, 0, 0,
    0, 0, 0, 0, 0, 1, 0, 0, 0, 0, 0, 0, 0, 0, 0, 0, 0, 0, 0, 0, 0, 0, 0, 0, 0,
    0, 0, 0, 0, 0, 0, 0, 0, 0, 0, 0, 0, 1, 0, 0, 0, 0, 0, 0, 0, 0, 0, 0, 0, 0,
    0, 0, 0, 0, 0, 0, 0, 0, 0, 0, 0, 0, 0, 0, 0, 0, 0, 0, 0, 0, 0, 0, 0, 0, 0,
    0, 0, 0, 1, 1, 0, 0, 0, 0, 0, 0, 0, 0, 0, 0, 0, 0, 0, 0, 0, 0, 0, 1, 0, 0,
    0, 0, 0, 0, 1, 0, 0, 1, 0, 0, 0, 0, 0, 0, 0, 0, 0, 0, 0, 0, 0, 0, 1, 0, 0,
    0, 0, 0, 0, 0, 0, 0, 0, 1, 0, 1, 1, 1, 0, 0, 0, 0, 0, 0, 0, 0, 0, 0, 0, 0,
    1, 0, 0, 0, 0, 1, 1, 0, 0, 0, 0, 0, 0, 0, 0, 0, 0, 0, 0, 0, 0, 1, 0, 0, 0,
    0, 0, 0, 0, 0, 0, 0, 0, 0, 0, 0, 0, 1, 0, 1, 0, 0, 0, 0, 0, 0, 0, 0, 0, 0,
    0, 0, 0, 0, 0, 0, 1, 0, 0, 0, 0, 0, 1, 0, 0, 0, 0, 0, 0, 0, 0, 0, 0, 0, 0,
    0, 0, 0, 0, 0, 0, 0, 0, 0, 0, 0, 0, 0, 1, 0, 0, 0, 1, 0, 0, 0, 0, 0, 0, 0,
    0, 0, 0, 0, 0, 0, 0, 0, 0, 0, 0, 0, 1, 0, 0, 0, 0, 0, 0, 0, 0, 0, 0, 0, 0,
    0, 0, 0, 0, 1, 1, 0, 0, 0, 0, 0, 0, 0, 0, 0, 1, 0, 1, 0, 0, 0, 0, 0, 1, 0,
    0, 0, 0, 1, 0, 1, 0, 0, 1, 0, 0, 0, 0, 0, 0, 0, 0, 0, 0, 0, 0, 0, 0, 1, 0,
    0, 0, 0, 0, 0, 0, 0, 0, 0, 1, 0, 1, 1, 1, 0, 0, 1, 0, 0, 0, 0, 0, 0, 0, 0,
    0, 1, 0, 0, 0, 0, 1, 1, 0, 0, 0, 0, 0, 0, 0, 0, 0, 0, 0, 0, 0, 0, 1, 0, 0,
    0, 0, 0, 0, 0, 0, 1, 0, 0, 0, 0, 0, 1, 1, 0, 1, 0, 0, 0, 0, 0, 0, 0, 0, 0,
    0, 0, 0, 0, 0, 0, 0, 1, 0, 0, 0, 0, 0, 2, 0, 0, 0, 0, 0, 0, 0, 0, 0, 0, 0,
    0, 0, 0, 0, 0, 0, 0, 0, 0, 1, 0, 0, 0, 0, 1, 0, 0, 0, 1, 0, 0, 0, 0, 0, 0,
    0, 0, 0, 0, 0, 0, 0, 0, 0, 0, 0, 0, 0, 1, 0, 0, 0, 0, 0, 0, 0, 0, 0, 0, 0,
    0, 0, 0, 0, 0, 1, 1, 0, 0, 0, 0, 0, 0, 0, 0, 0, 1, 0, 1, 0, 0, 0, 0, 0, 1,
    0, 0, 0, 0, 1, 0, 1, 0, 0, 1, 0, 0, 0, 0, 0, 0, 0, 0, 0, 0, 0, 0, 0, 0, 1,
    0, 0, 0, 0, 0, 0, 0, 0, 0, 0, 1, 0, 1, 1, 1, 0, 0, 1, 0, 0, 0, 0, 0, 0, 0,
    0, 0, 1, 0, 0, 0, 0, 1, 1, 0, 0, 0, 0, 0, 0, 0, 0, 0, 0, 0, 0, 0, 0, 1, 0,
    0, 0, 0, 0, 0, 0, 0, 1, 0, 0, 0, 0, 0, 1, 1, 0, 1, 1, 0, 0, 0, 0, 0, 0, 0,
    0, 0, 0, 0, 0, 1, 0, 0, 1, 0, 0, 0, 0, 0, 1, 1, 1, 0, 0, 0, 0, 0, 0, 0, 0,
    0, 0, 0, 0, 0, 0, 0, 0, 0, 0, 1, 0, 0, 0, 0, 1, 0, 0, 0, 1, 0, 0, 0, 0, 0,
    0, 0, 0, 0, 0, 0, 0, 0, 0, 0, 0, 0, 0, 0, 1, 0, 0, 1, 0, 0, 0, 0, 0, 0, 0,
    0, 0, 0, 0, 0, 0, 1, 1, 0, 0, 0, 0, 1, 0, 0, 0, 0, 1, 0, 1, 0, 0, 0, 0, 0,
    1, 0, 1, 0, 0, 1, 1, 1, 0, 0, 1, 0, 0, 0, 0, 0, 0, 0, 0, 0, 0, 0, 0, 0, 0,
    1, 0, 1, 0, 0, 0, 0, 0, 1, 0, 0, 1, 0, 1, 1, 1, 0, 1, 1, 0, 0, 0, 0, 0, 0,
    0, 0, 0, 1, 0, 0, 0, 0, 1, 1, 0, 0, 0, 0, 0, 0, 0, 0, 0, 0, 0, 0, 0, 0, 1,
    0, 0, 0, 0, 0, 0, 0, 0, 1, 0, 0, 0, 0, 0, 1, 1, 0, 1, 1, 0, 0, 0, 0, 0, 0,
    0, 0, 0, 0, 0, 0, 1, 0, 0, 1, 0, 0, 0, 0, 0, 1, 1, 1, 1, 1, 0, 0, 0, 0, 0,
    0, 0, 0, 0, 0, 0, 0, 0, 0, 0, 0, 1, 0, 0, 0, 0, 1, 0, 0, 0, 1, 0, 0, 0, 0,
    1, 0, 0, 0, 0, 0, 0, 0, 0, 0, 0, 0, 0, 0, 0, 1, 0, 0, 1, 0, 0, 0, 0, 0, 0,
    0, 0, 0, 0, 0, 0, 0, 1, 1, 0, 0, 0, 0, 1, 1, 0, 0, 0, 1, 0, 1, 0, 0, 0, 0,
    1, 1, 0, 1, 0, 0, 1, 1, 1, 0, 0, 1, 0, 0, 0, 0, 0, 0, 0, 1, 0, 0, 0, 0, 0,
    0, 1, 0, 1, 0, 0, 0, 0, 0, 1, 0, 0, 1, 0, 1, 1, 1, 0, 1, 1, 0, 0, 0, 0, 0,
    0, 0, 0, 0, 1, 0, 0, 0, 0, 1, 1, 0, 0, 0, 0, 0, 0, 0, 0, 0, 0, 0, 0, 0, 0,
    1, 0, 0, 0, 0, 0, 0, 0, 0, 1, 0, 0, 1, 0, 1, 1, 1, 1, 1, 1, 0, 0, 0, 0, 0,
    0, 0, 0, 0, 0, 0, 0, 2, 0, 0, 1, 0, 0, 0, 0, 0, 1, 1, 1, 1, 1, 0, 0, 0, 0,
    1, 0, 0, 0, 0, 0, 0, 0, 0, 0, 0, 0, 1, 0, 0, 0, 0, 1, 0, 0, 0, 1, 0, 0, 0,
    0, 1, 0, 0, 0, 0, 0, 0, 0, 0, 0, 0, 0, 0, 0, 0, 1, 0, 0, 1, 0, 0, 0, 0, 0,
    0, 0, 0, 0, 0, 0, 1, 0, 1, 1, 0, 0, 0, 0, 1, 1, 0, 0, 0, 1, 0, 2, 0, 0, 0,
    0, 1, 1, 0, 1, 0, 0, 1, 1, 1, 0, 0, 1, 0, 0, 0, 0, 0, 0, 0, 1, 0, 0, 0, 0,
    0, 0, 1, 0, 2, 0, 0, 0, 0, 0, 1, 0, 0, 1, 0, 1, 1, 1, 0, 1, 1, 0, 0, 0, 0,
    0, 0, 0, 0, 0, 1, 0, 0, 0, 0, 2, 2, 0, 0, 0, 0, 0, 0, 0, 0, 0, 0, 0, 0, 0,
    0, 1, 0, 0, 0, 0, 0, 0, 0, 0, 1, 0, 0, 1, 0, 1, 1, 1, 1, 1, 1, 0, 0, 0, 0,
    0, 0, 0, 0, 0, 0, 0, 0, 1, 1, 0, 1, 0, 1, 0, 0, 0, 1, 1, 1, 1, 1, 0, 0, 0,
    0, 1, 0, 0, 0, 0, 0, 0, 0, 0, 0, 0, 1, 1, 0, 0, 0, 0, 1, 1, 0, 0, 1, 0, 0,
    0, 0, 1, 0, 0, 0, 0, 0, 0, 0, 0, 0, 0, 0, 0, 0, 0, 1, 0, 0, 1, 0, 0, 0, 0,
    0, 0, 0, 0, 0, 0, 0, 1, 0, 1, 1, 0, 0, 0, 1, 1, 1, 0, 0, 0, 1, 0, 1, 1, 0,
    0, 0, 1, 1, 0, 1, 0, 0, 1, 1, 1, 0, 0, 1, 0, 0, 0, 0, 1, 0, 0, 1, 0, 1, 0,
    0, 0, 0, 1, 0, 1, 1, 0, 0, 0, 0, 1, 0, 0, 1, 0, 1, 1, 1, 0, 1, 1, 0, 0, 0,
    0, 1, 0, 0, 0, 0, 1, 0, 0, 0, 0, 1, 1, 1, 0, 0, 0, 0, 0, 0, 0, 0, 1, 0, 0,
    0, 0, 1, 0, 0, 0, 0, 0, 0, 0, 0, 1, 0, 0, 1, 0, 1, 1, 1, 1, 1, 1, 0, 1, 0,
    0, 0, 0, 0, 1, 0, 0, 0, 0, 1, 1, 0, 1, 0, 1, 0, 0, 0, 1, 1, 1, 1, 1, 0, 0,
    0, 0, 1, 0, 0, 0, 0, 0, 0, 1, 0, 0, 0, 1, 1, 0, 0, 0, 0, 1, 1, 1, 0, 2, 0,
    0, 0, 0, 1, 0, 0, 0, 0, 0, 0, 0, 0, 0, 0, 0, 0, 0, 0, 1, 0, 0, 1, 0, 0, 0,
    0, 0, 0, 0, 0, 0, 0, 0, 1, 0, 1, 1, 0, 1, 0, 1, 1, 1, 0, 0, 0, 1, 0, 1, 1,
    0, 0, 0, 1, 1, 0, 2, 0, 0, 1, 1, 1, 0, 0, 1, 0, 0, 0, 0, 1, 0, 0, 1, 0, 1,
    0, 0, 0, 0, 1, 0, 1, 1, 0, 0, 0, 0, 1, 0, 0, 1, 0, 1, 1, 1, 0, 1, 1, 0, 1,
    0, 0, 1, 0, 0, 0, 0, 1, 0, 0, 0, 0, 1, 1, 1, 0, 0, 0, 1, 0, 0, 0, 0, 1, 0,
    0, 0, 0, 1, 0, 0, 0, 0, 0, 0, 0, 0, 1, 0, 0, 1, 0, 1, 1, 1, 1, 1, 1, 0, 1,
    0, 0, 0, 0, 0, 1, 0, 1, 0, 0, 1, 1, 0, 1, 0, 1, 0, 0, 0, 1, 1, 1, 1, 1, 0,
    0, 0, 0, 1, 0, 0, 0, 0, 0, 0, 1, 0, 0, 0, 1, 1, 0, 0, 0, 0, 1, 1, 1, 0, 1,
    1, 0, 0, 0, 1, 0, 0, 0, 0, 1, 1, 0, 0, 0, 0, 0, 0, 0, 0, 1, 0, 1, 1, 0, 0,
    0, 0, 0, 0, 0, 0, 0, 0, 0, 1, 2, 2, 2, 0, 1, 0, 1, 1, 1, 0, 0, 0, 1, 0, 1,
    1, 0, 0, 0, 1, 1, 0, 1, 1, 0, 1, 1, 1, 0, 0, 1, 0, 0, 0, 0, 1, 0, 0, 1, 1,
    1, 0, 0, 0, 0, 1, 0, 1, 1, 0, 0, 0, 0, 1, 0, 0, 1, 0, 1, 1, 1, 1, 1, 1, 1,
    1, 0, 0, 1, 0, 0, 0, 0, 1, 0, 0, 0, 0, 1, 1, 1, 0, 0, 0, 1, 0, 0, 0, 1, 1,
    0, 0, 0, 0, 1, 0, 0, 0, 0, 0, 0, 0, 1, 1, 0, 0, 1, 0, 1, 1, 1, 1, 1, 1, 0,
    1, 0, 0, 0, 0, 0, 1, 0, 1, 0, 0, 1, 1, 0, 1, 0, 1, 0, 0, 0, 1, 1, 1, 1, 1,
    0, 1, 0, 0, 1, 0, 0, 0, 0, 0, 0, 1, 0, 0, 0, 1, 1, 0, 0, 0, 0, 1, 1, 1, 0,
    1, 1, 0, 0, 0, 1, 0, 0, 0, 0, 1, 1, 0, 0, 0, 0, 0, 0, 0, 0, 1, 0, 1, 1, 1,
    0, 0, 0, 0, 0, 0, 0, 0, 0, 0, 1, 1, 1, 1, 1, 1, 0, 1, 1, 1, 0, 0, 0, 1, 0,
    1, 1, 0, 1, 0, 1, 1, 0, 1, 1, 0, 2, 2, 2, 0, 0, 1, 0, 0, 0, 1, 1, 0, 0, 1,
    1, 1, 0, 0, 0, 0, 2, 0, 1, 1, 0, 0, 0, 0, 1, 0, 0, 1, 0, 1, 1, 1, 1, 1, 1,
    1, 1, 0, 0, 1, 0, 0, 0, 0, 1, 0, 0, 0, 0, 2, 3, 3, 0, 0, 1, 1, 0, 0, 0, 1,
    1, 0, 0, 0, 0, 1, 0, 0, 0, 0, 0, 0, 0, 1, 1, 0, 0, 1, 0, 1, 1, 2, 2, 2, 2,
    0, 1, 0, 0, 0, 0, 0, 1, 0, 1, 0, 0, 1, 1, 0, 1, 0, 1, 0, 0, 0, 1, 1, 1, 1,
    1, 0, 1, 0, 2, 2, 0, 0, 0, 0, 0, 0, 1, 0, 0, 0, 1, 1, 0, 0, 1, 0, 1, 1, 1,
    0, 1, 1, 0, 0, 0, 1, 0, 0, 0, 0, 1, 1, 0, 0, 0, 0, 0, 0, 1, 0, 1, 0, 1, 1,
    1, 0, 0, 0, 0, 0, 0, 0, 0, 0, 0, 1, 1, 1, 1, 1, 1, 0, 1, 1, 1, 0, 0, 0, 1,
    0, 1, 1, 0, 1, 0, 1, 1, 0, 1, 1, 0, 1, 1, 1, 1, 0, 1, 0, 0, 0, 1, 1, 0, 0,
    2, 2, 2, 0, 0, 0, 1, 1, 1, 1, 1, 0, 0, 0, 0, 1, 0, 0, 1, 0, 1, 1, 2, 2, 2,
    2, 2, 2, 0, 0, 1, 0, 0, 0, 0, 1, 0, 0, 0, 0, 1, 1, 1, 1, 1, 1, 1, 0, 0, 0,
    1, 1, 0, 0, 0, 0, 1, 0, 1, 0, 0, 0, 0, 0, 1, 1, 0, 0, 1, 0, 1, 1, 1, 1, 1,
    1, 1, 2, 0, 0, 0, 0, 0, 1, 0, 1, 1, 0, 1, 1, 0, 2, 0, 1, 0, 0, 0, 1, 1, 1,
    1, 1, 0, 1, 0, 1, 1, 1, 0, 0, 0, 0, 0, 1, 0, 0, 0, 1, 1, 0, 0, 1, 0, 1, 1,
    2, 0, 1, 1, 0, 0, 0, 1, 0, 0, 0, 0, 2, 2, 0, 0, 0, 0, 0, 0, 1, 0, 1, 0, 1,
    1, 3, 0, 0, 0, 0, 0, 0, 0, 0, 0, 0, 1, 1, 1, 1, 1, 1, 0, 1, 1, 1, 0, 0, 0,
    1, 0, 1, 1, 0, 1, 0, 1, 1, 0, 1, 1, 0, 1, 1, 1, 1, 0, 1, 0, 2, 0, 1, 1, 0,
    0, 2, 2, 2, 2, 0, 0, 1, 1, 1, 1, 1, 2, 0, 0, 0, 1, 0, 0, 2, 0, 1, 1, 1, 1,
    1, 1, 2, 2, 2, 0, 1, 0, 0, 0, 0, 1, 0, 0, 0, 1, 1, 1, 1, 1, 2, 2, 3, 0, 0,
    1, 2, 2, 0, 0, 0, 0, 1, 0, 1, 1, 0, 0, 0, 0, 1, 1, 0, 0, 1, 0, 1, 1, 1, 1,
    1, 1, 2, 2, 2, 2, 0, 0, 0, 1, 0, 1, 1, 0, 1, 1, 0, 1, 1, 1, 0, 0, 0, 1, 1,
    1, 2, 2, 0, 1, 0, 1, 1, 1, 0, 0, 0, 0, 0, 1, 0, 0, 0, 1, 1, 0, 0, 1, 1, 1,
    1, 1, 1, 1, 2, 0, 0, 0, 1, 0, 0, 0, 1, 1, 1, 1, 0, 0, 0, 0, 0, 1, 0, 1, 0,
    1, 1, 1, 1, 1, 0, 0, 0, 0, 0, 0, 1, 0, 2, 2, 2, 2, 2, 2, 0, 1, 1, 1, 0, 0,
    0, 2, 0, 1, 1, 0, 1, 0, 1, 1, 0, 1, 1, 0, 1, 1, 1, 1, 0, 1, 0, 1, 1, 2, 2,
    0, 0, 1, 1, 1, 1, 1, 0, 1, 1, 1, 1, 1, 1, 1, 0, 0, 1, 0, 0, 1, 1, 1, 1, 2,
    2, 2, 2, 2, 2, 2, 3, 3, 0, 0, 1, 0, 1, 0, 0, 0, 1, 1, 1, 1, 1, 1, 1, 1, 1,
    1, 1, 1, 1, 1, 0, 0, 0, 1, 0, 1, 1, 1, 0, 0, 0, 1, 1, 0, 0, 1, 0, 1, 1, 1,
    1, 1, 1, 1, 1, 1, 1, 1, 0, 1, 3, 0, 2, 2, 0, 1, 1, 0, 1, 1, 1, 0, 0, 0, 1,
    1, 1, 1, 1, 1, 1, 0, 1, 1, 1, 0, 0, 0, 0, 0, 1, 0, 0, 0, 1, 1, 0, 0, 1, 1,
    1, 1, 1, 1, 1, 1, 1, 0, 0, 1, 0, 0, 0, 1, 1, 1, 1, 0, 0, 0, 0, 0, 1, 0, 1,
    1, 2, 2, 2, 2, 2, 0, 0, 0, 0, 0, 0, 1, 0, 1, 1, 1, 1, 1, 1, 1, 1, 1, 1, 0,
    0, 0, 1, 1, 1, 1, 0, 2, 0, 1, 1, 0, 1, 1, 0, 1, 1, 1, 1, 0, 1, 0, 2, 2, 2,
    2, 2, 0, 1, 1, 1, 1, 1, 0, 1, 1, 1, 1, 1, 1, 1, 0, 0, 1, 0, 0, 1, 1, 1, 1,
    1, 1, 1, 1, 1, 1, 1, 1, 1, 1, 1, 2, 0, 2, 0, 0, 0, 1, 2, 2, 2, 2, 2, 2, 2,
    3, 3, 3, 3, 3, 3, 0, 0, 0, 1, 0, 1, 1, 1, 2, 0, 0, 1, 1, 0, 0, 1, 0, 1, 1,
    1, 1, 1, 1, 1, 1, 1, 1, 1, 0, 1, 1, 1, 1, 1, 1, 1, 1, 0, 1, 1, 1, 0, 0, 0,
    1, 1, 1, 1, 1, 1, 1, 0, 1, 1, 1, 0, 0, 0, 0, 0, 1, 0, 0, 0, 1, 1, 0, 0, 1,
    1, 1, 1, 1, 1, 1, 1, 1, 0, 0, 1, 0, 0, 1, 1, 1, 2, 2, 0, 0, 0, 0, 0, 1, 0,
    1, 1, 1, 1, 1, 2, 2, 2, 0, 0, 0, 0, 0, 1, 0, 1, 1, 1, 1, 1, 1, 1, 1, 1, 1,
    0, 0, 0, 1, 1, 1, 1, 0, 1, 1, 3, 3, 0, 2, 2, 0, 1, 1, 1, 1, 0, 1, 0, 1, 1,
    1, 1, 3, 5, 5, 5, 5, 5, 5, 0, 4, 4, 4, 4, 6, 6, 6, 0, 0, 4, 0, 0, 2, 2, 2,
    2, 2, 2, 2, 2, 2, 2, 2, 2, 2, 2, 2, 2, 2, 2, 2, 0, 1, 1, 2, 2, 2, 2, 2, 2,
    2, 2, 2, 2, 2, 2, 2, 2, 2, 0, 1, 0, 1, 1, 1, 1, 1, 0, 1, 1, 0, 0, 1, 1, 1,
    2, 2, 2, 2, 2, 2, 2, 3, 3, 3, 0, 2, 2, 2, 2, 2, 2, 2, 2, 0, 1, 1, 1, 0, 1,
    0, 1, 1, 1, 1, 1, 1, 1, 0, 1, 1, 1, 0, 0, 0, 0, 0, 1, 0, 0, 0, 1, 1, 0, 0,
    1, 1, 1, 1, 2, 2, 2, 2, 2, 0, 0, 1, 0, 0, 1, 1, 1, 1, 1, 1, 1, 0, 0, 0, 1,
    0, 1, 1, 1, 1, 1, 1, 1, 2, 2, 0, 0, 1, 0, 1, 0, 1, 1, 1, 1, 1, 1, 2, 2, 2,
    2, 0, 0, 0, 1, 1, 1, 1, 0, 1, 1, 2, 2, 2, 2, 2, 2, 2, 2, 2, 2, 0, 1, 1, 1,
    1, 1, 1, 1, 1, 1, 1, 1, 1, 1, 1, 1, 1, 1, 1, 1, 1, 1, 1, 1, 1, 1, 1, 1, 1,
    2, 2, 3, 3, 3, 3, 3, 3, 3, 3, 3, 3, 3, 3, 3, 3, 3, 3, 3, 3, 3, 3, 3, 3, 3,
    3, 3, 3, 3, 3, 3, 5, 5, 5, 5, 5, 5, 0, 4, 4, 4, 5, 5, 0, 4, 4, 0, 0, 2, 3,
    3, 3, 3, 3, 3, 3, 3, 4, 4, 4, 4, 4, 4, 4, 4, 4, 5, 5, 5, 5, 5, 5, 5, 5, 0,
    4, 0, 3, 3, 3, 3, 3, 3, 3, 0, 3, 3, 3, 0, 0, 0, 0, 0, 1, 0, 0, 0, 1, 1, 0,
    0, 1, 1, 1, 1, 1, 1, 1, 1, 1, 1, 0, 2, 0, 0, 2, 2, 2, 2, 2, 2, 2, 0, 0, 0,
    1, 0, 1, 1, 1, 1, 1, 1, 1, 1, 1, 1, 0, 1, 0, 1, 0, 1, 1, 1, 1, 1, 1, 1, 1,
    1, 1, 1, 0, 0, 1, 1, 1, 1, 0, 1, 1, 1, 1, 1, 1, 1, 1, 1, 1, 1, 1, 1, 1, 1,
    1, 1, 1, 1, 1, 1, 1, 1, 1, 1, 1, 1, 1, 1, 1, 1, 1, 1, 1, 1, 1, 1, 1, 1, 1,
    1, 1, 1, 1, 2, 2, 2, 2, 2, 2, 2, 2, 2, 2, 2, 2, 2, 2, 2, 2, 2, 2, 2, 2, 2,
    2, 2, 2, 2, 2, 2, 2, 2, 2, 2, 2, 2, 2, 2, 2, 2, 2, 2, 2, 2, 2, 2, 2, 2, 2,
    2, 2, 2, 2, 2, 2, 2, 3, 3, 3, 3, 4, 4, 5, 5, 5, 5, 5, 5, 5, 5, 5, 5, 5, 5,
    5, 5, 5, 5, 5, 5, 5, 5, 5, 5, 5, 5, 5, 5, 5, 5, 0, 0, 0, 2, 0, 0, 0, 1, 1,
    0, 0, 1, 1, 1, 1, 1, 1, 1, 1, 1, 2, 0, 1, 1, 0, 1, 1, 1, 1, 1, 1, 1, 1, 0,
    0, 1, 1, 1, 1, 1, 1, 1, 1, 1, 2, 2, 2, 0, 1, 0, 2, 0, 1, 1, 1, 2, 2, 2, 2,
    2, 2, 2, 3, 0, 0, 1, 1, 1, 1, 0, 1, 1, 1, 1, 1, 1, 1, 1, 1, 1, 1, 1, 2, 2,
    2, 2, 2, 3, 3, 3, 3, 3, 3, 4, 4, 4, 4, 4, 4, 4, 4, 4, 4, 4, 4, 4, 5, 6, 6,
    6, 6, 6, 6, 6, 6, 6, 6, 6, 6, 6, 6, 6, 6, 6, 6, 6, 6, 9, 9, 9, 9, 9, 9, 10,
    10, 10, 10, 11, 11, 11, 12, 12, 12, 12, 12, 12, 12, 12, 12, 12, 12, 12, 12, 12, 12, 12, 12, 12, 12,
    12, 12, 12, 12, 12, 12, 12, 12, 12, 12, 12, 12, 12, 12, 12, 12, 12, 12, 12, 12, 12, 13, 13, 13, 13,
    13, 13, 13, 13, 13, 13, 13, 13, 13, 13, 13, 13, 13, 13, 13, 13, 13, 15, 15, 15, 15, 15, 15, 0, 14,
    14, 0, 0, 12, 12, 14, 14, 14, 14, 14, 14, 14, 14, 14, 14, 14, 14, 14, 14, 14, 14, 14, 14, 14, 14,
    0, 0, 12, 12, 12, 12, 12, 12, 12, 12, 12, 12, 13, 13, 14, 14, 0, 13, 13, 13, 13, 13, 13, 13, 13,
    13, 13, 13, 13, 13, 13, 13, 13, 13, 13, 13, 0, 13, 14, 14, 14, 14, 14, 14, 14, 14, 14, 14, 14, 14,
    14, 14, 14, 14, 14, 14, 14, 14, 14, 14, 14, 14, 14, 14, 14, 14, 14, 14, 14, 14, 14, 14, 14, 14, 14,
    14, 14, 14, 14, 14, 14, 14, 14, 15, 15, 15, 15, 15, 15, 15, 16, 16, 16, 16, 16, 16, 16, 16, 17, 17,
    17, 17, 17, 17, 17, 17, 17, 17, 18, 18, 19, 19, 19, 20, 20, 20, 20, 20, 20, 20, 20, 20, 20, 20, 20,
    20, 20, 21, 21, 21, 21, 21, 21, 21, 21, 21, 21, 21, 21, 21, 21, 21, 21, 21, 21, 21, 21, 21, 21, 21,
    21, 21, 21, 21, 21, 21, 22, 22, 22, 22, 22, 22, 22, 22, 22, 22, 22, 22, 22, 22, 22, 22, 22, 22, 22,
    22, 22, 22, 22, 22, 22, 22, 22, 22, 22, 22, 22, 22, 22, 22, 22, 22, 22, 22, 22, 22, 22, 22, 22, 22,
    23, 23, 23, 23, 23, 23, 23, 23, 23, 23, 23, 23, 23, 23, 23, 23, 23, 23, 24, 24, 24, 24, 24, 24, 24,
    24, 24, 24, 24, 25, 25, 25, 25, 25, 25, 25, 25, 25, 25, 25, 25, 25, 25, 25, 25, 25, 25, 25, 25, 25,
    25, 25, 25, 25, 25, 25, 25, 25, 25, 25, 25, 25, 25, 25, 25, 25, 25, 25, 25, 25, 25, 25, 25, 25, 26,
    26, 26, 26, 27, 27, 27, 28, 28, 28, 28, 28, 28, 28, 28, 28, 28, 28, 28, 28, 28, 28, 28, 28, 28, 28,
    28, 28, 28, 28, 28, 28, 29, 29, 29, 29, 29, 29, 29, 29, 29, 29, 29, 29, 29, 29, 29, 29, 29, 29, 30,
    30, 30, 30, 30, 30, 30, 30, 30, 30, 30, 30, 31, 31, 31, 31, 31, 31, 31, 31, 31, 31, 31, 31, 31, 31,
    31, 31, 31, 31, 31, 31, 31, 32, 32, 32, 32, 33, 33, 33, 33, 33, 33, 34, 34, 35, 35, 35, 35, 35, 36,
    36, 36, 36, 36, 36, 36, 36, 36, 36, 36, 36, 36, 36, 36, 36, 36, 36, 36, 36, 36, 37, 37, 38, 39, 40,
    40, 40, 40, 40, 40, 40, 40, 40, 40, 41, 41, 41, 41, 41, 41, 41, 43, 43, 43, 44, 44, 44, 44, 44, 45,
    45, 46, 46, 46, 46, 46, 47, 47, 47, 47, 47, 48, 48, 48, 48, 48, 48, 48, 48, 48, 48, 48, 48, 48, 48,
    48, 48, 48, 48, 48, 48, 48, 48, 48, 48, 48, 48, 48, 48, 48, 48, 48, 48, 48, 48, 48, 48, 49, 49, 49,
    49, 49, 49, 49, 50, 50, 50, 50, 50, 50, 50, 51, 51, 51, 51, 51, 51, 51, 51, 51, 51, 51, 51, 51, 51,
    51, 52, 52, 52, 52, 52, 52, 52, 52, 52, 52, 52, 52, 52, 52, 52, 52, 52, 52, 52, 53, 53, 54, 55, 55,
    55, 55, 55, 55, 55, 55, 55, 55, 55, 55, 55, 56, 56, 56, 56, 56, 57, 57, 57, 58, 58, 58, 58, 58, 58,
    58, 58, 58, 58, 58, 58, 58, 58, 58, 58, 58, 58, 58, 58, 58, 58, 59, 59, 60, 60, 60, 60, 60, 60, 60,
    60, 60, 60, 60, 60, 60, 60, 60, 60, 60, 60, 60, 60, 60, 60, 60, 60, 60, 60, 60, 60, 60, 60, 60, 60,
    60, 60, 60, 60, 60, 60, 60, 60, 60, 60, 60, 60, 60, 61, 61, 61, 61, 62, 62, 62, 62, 62, 62, 62, 62,
    62, 62, 62, 62, 62, 62, 62, 62, 62, 62, 62, 62, 63, 63, 63, 63, 63, 63, 63, 63, 63, 63, 63, 63, 63,
    63, 63, 63, 63, 63, 63, 63, 63, 63, 63, 63, 63, 63, 63, 63, 63, 63, 63, 63, 63, 63, 63, 63, 63, 63,
    63, 63, 64, 64, 64, 65, 65, 66, 66, 66, 66, 66, 66, 66, 66, 66, 66, 66, 66, 66, 66, 66, 66, 66, 66,
    66, 66, 66, 66, 66, 66, 66, 66, 66, 68, 68, 68, 68, 68, 68, 68, 68, 69, 69, 69, 69, 69, 69, 69, 69,
    69, 69, 69, 69, 69, 69, 69, 69, 69, 69, 70, 70, 70, 70, 70, 71, 71, 71, 72, 72, 73, 73, 73, 73, 73,
    73, 73, 73, 73, 73, 73, 73, 73, 73, 73, 73, 73, 73, 73, 73, 73, 73, 73, 73, 73, 73, 73, 73, 73, 73,
    73, 73, 73, 73, 73, 74, 75, 75, 75, 75, 75, 75, 75, 75, 75, 75, 75, 75, 75, 75, 75, 75, 75, 76, 77,
    77, 77, 77, 78, 78, 78, 78, 78, 78, 79, 79, 79, 79, 79, 79, 79, 79, 79, 79, 79, 79, 79, 79, 79, 79,
    79, 79, 79, 79, 79, 80, 81, 81, 82, 82, 82, 82, 82, 82, 82, 82, 83, 83, 83, 83, 83, 83, 83, 83, 83,
    83, 83, 83, 83, 83, 83, 83, 83, 83, 83, 83, 83, 84, 84, 84, 84, 84, 84, 84, 84, 84, 84, 84, 84, 84,
    84, 84, 84, 84, 84, 84, 84, 84, 84, 84, 84, 84, 84, 84, 84, 84, 85, 85, 87, 87, 87, 87, 87, 87, 87,
    88, 88, 88, 88, 88, 88, 89, 89, 89, 90, 90, 90, 90, 90, 90, 90, 90, 90, 90, 90, 91, 92, 92, 92, 92,
    92, 92, 92, 92, 92, 92, 92, 92, 92, 92, 92, 92, 92, 92, 92, 93, 93, 93, 94, 94, 94, 94, 94, 94, 94,
    94, 94, 94, 94, 94, 94, 94, 94, 94, 95, 95, 95, 95, 95, 97, 97, 97, 97, 97, 97, 97, 97, 97, 99, 99,
    99, 99, 99, 99, 100, 100, 100, 100, 100, 100, 100, 100, 100, 100, 100, 100, 100, 100, 100, 100, 100, 100, 100, 100, 100,
    100, 101, 101, 101, 101, 101, 101, 101, 101, 101, 101, 101, 101, 101, 101, 101, 101, 101, 101, 101, 101, 102, 102, 103, 103,
    103, 103, 103, 103, 103, 103, 103, 103, 103, 103, 103, 103, 103, 103, 104, 104, 104, 104, 105, 106, 106, 106, 106, 106, 106,
    106, 106, 106, 106, 106, 106, 106, 106, 106, 106, 107, 108, 108, 108, 108, 108, 108, 108, 108, 108, 108, 108, 108, 108, 108,
    108, 108, 109, 109, 109, 109, 109, 109, 109, 109, 109, 109, 109, 109, 109, 109, 109, 110, 110, 110, 110, 110, 110, 110, 110,
    110, 111, 111, 111, 111, 111, 111, 111, 112, 113, 113, 113, 113, 113, 113, 113, 113, 113, 113, 113, 113, 113, 113, 113, 113,
    113, 114, 114, 114, 114, 114, 114, 114, 114, 114, 114, 114, 114, 114, 114, 114, 114, 114, 114, 114, 114, 114, 114, 114, 114,
    114, 114, 114, 114, 114, 114, 114, 114, 114, 115, 115, 115, 115, 115, 115, 115, 116, 116, 116, 116, 116, 116, 116, 116, 116,
    116, 116, 116, 116, 117, 117, 117, 117, 117, 117, 119, 119, 121, 121, 121, 122, 122, 122, 122, 122, 122, 122, 122, 122, 122,
    122, 122, 122, 122, 122, 122, 122, 122, 122, 122, 123, 123, 123, 123, 124, 124, 124, 125, 125, 125, 125, 125, 125, 125, 125,
    126, 126, 126, 126, 126, 126, 126, 126, 126, 126, 126, 128, 128, 128, 128, 128, 128, 128, 128, 128, 128, 128, 128, 128, 128,
    128, 128, 128, 128, 128, 128, 128, 128, 128, 128, 128, 128, 128, 128, 128, 128, 128, 128, 128, 128, 128, 128, 128, 128, 128,
    128, 128, 128, 128, 128, 128, 129, 129, 129, 129, 129, 129, 129, 129, 129, 129, 129, 129, 129, 129, 129, 129, 129, 129, 129,
    129, 129, 129, 129, 129, 129, 129, 129, 129, 129, 129, 129, 129, 129, 129, 130, 131, 132, 132, 133, 133, 133, 133, 133, 133,
    133, 133, 133, 133, 133, 133, 133, 133, 133, 133, 133, 133, 133, 133, 134, 134, 134, 134, 134, 135, 135, 135, 135, 135, 136,
    136, 138, 138, 138, 138, 138, 138, 138, 138, 138, 139, 139, 139, 139, 139, 140, 140, 140, 140, 140, 140, 140, 140, 140, 140,
    140, 140, 140, 140, 140, 140, 141, 142, 142, 142, 142, 142, 142, 142, 142, 142, 142, 143, 143, 143, 143, 144, 144, 144, 144,
    144, 144, 144, 144, 144, 145, 145, 145, 145, 145, 145, 146, 146, 146, 146, 147, 147, 147, 147, 147, 147, 147, 147, 147, 147,
    147, 147, 147, 147, 147, 147, 147, 147, 147, 147, 147, 147, 147, 147, 147, 147, 147, 147, 147, 147, 147, 147, 147, 148, 149,
    149, 149, 149, 150, 150, 150, 150, 150, 150, 150, 150, 150, 150, 150, 150, 150, 150, 150, 150, 151, 151, 151, 151, 151, 151,
    152, 152, 152, 152, 152, 152, 152, 152, 152, 152, 152, 152, 152, 153, 154, 154, 154, 154, 154, 154, 154, 154, 154, 154, 154,
    154, 154, 154, 154, 154, 154, 154, 154, 154, 154, 154, 154, 154, 154, 154, 155, 155, 155, 155, 155, 155, 155, 155, 155, 155,
    155, 155, 155, 155, 155, 155, 155, 155, 156, 156, 156, 156, 156, 156, 156, 156, 156, 156, 156, 156, 156, 156, 156, 156, 156,
    156, 156, 156, 156, 156, 156, 156, 156, 156, 156, 156, 156, 156, 156, 156, 156, 156, 156, 156, 156, 156, 156, 156, 156, 156,
    156, 157, 157, 157, 157, 157, 157, 157, 157, 157, 157, 157, 157, 157, 157, 157, 157, 157, 157, 157, 157, 158, 158, 158, 158,
    158, 158, 158, 158, 158, 158, 158, 158, 158, 158, 158, 158, 158, 158, 158, 158, 158, 158, 158, 159, 159, 159, 159, 159, 159,
    159, 159, 159, 159, 159, 159, 159, 159, 159, 159, 159, 159, 159, 159, 159, 160, 160, 160, 160, 160, 160, 160, 160, 160, 160,
    160, 160, 161, 161, 161, 161, 161, 161, 162, 162, 162, 163, 164, 164, 164, 164, 164, 164, 164, 164, 164, 164, 164, 165, 165,
    165, 165, 165, 165, 165, 165, 165, 165, 165, 165, 165, 165, 165, 165, 165, 166, 167, 167, 167, 167, 167, 167, 167, 167, 167,
    167, 167, 167, 167, 167, 167, 167, 167, 167, 167, 167, 167, 167, 167, 167, 167, 167, 167, 167, 167, 167, 167, 167, 167, 167,
    167, 167, 167, 167, 167, 167, 167, 167, 167, 167, 167, 167, 167, 167, 169, 169, 169, 169, 169, 169, 169, 169, 169, 170, 170,
    171, 171, 171, 171, 171, 171, 171, 171, 172, 172, 173, 173, 173, 173, 173, 173, 173, 173, 173, 174, 174, 174, 174, 174, 174,
    174, 175, 175, 175, 176, 177, 177, 177, 177, 177, 177, 177, 177, 177, 177, 177, 177, 177, 177, 177, 177, 177, 177, 178, 179,
    179, 179, 179, 179, 179, 179, 179, 180, 180, 180, 180, 180, 180, 180, 180, 180, 180, 181, 181, 181, 182, 182, 182, 182, 182,
    182, 182, 182, 183, 183, 183, 183, 183, 183, 183, 183, 183, 183, 184, 185, 185, 185, 185, 185, 185, 185, 185, 186, 187, 187,
    187, 187, 187, 187, 187, 187, 187, 187, 187, 187, 187, 187, 187, 187, 187, 187, 187, 187, 187, 187, 187, 187, 187, 187, 187,
    188, 188, 189, 189, 189, 189, 189, 189, 189, 189, 189, 189, 189, 189, 189, 189, 189, 189, 189, 189, 189, 189, 189, 189, 189,
    189, 189, 189, 189, 190, 190, 190, 190, 192, 192, 192, 192, 192, 192, 192, 192, 193, 193, 193, 193, 193, 193, 194, 194, 194,
    194, 195, 195, 195, 195, 196, 198, 199, 199, 199, 199, 199, 199, 199, 199, 199, 199, 199, 202, 202, 202, 202, 202, 202, 202,
    202, 202, 202, 202, 202, 202, 202, 203, 203, 203, 203, 203, 203, 203, 203, 203, 203, 203, 203, 203, 203, 203, 203, 203, 203,
    203, 203, 203, 203, 203, 206, 206, 206, 206, 206, 206, 206, 206, 206, 206, 206, 206, 206, 206, 206, 206, 207, 207, 207, 207,
    207, 207, 207, 208, 208, 208, 208, 208, 208, 209, 209, 209, 210, 210, 210, 210, 210, 210, 210, 210, 210, 210, 210, 210, 210,
    210, 211, 211, 211, 211, 211, 211, 211, 211, 211, 212, 212, 212, 212, 212, 212, 212, 212, 212, 212, 213, 215, 215, 215, 215,
    215, 215, 215, 215, 215, 215, 215, 215, 215, 216, 216, 216, 216, 216, 216, 216, 216, 216, 216, 216, 216, 217, 217, 217, 217,
    217, 217, 219, 219, 219, 219, 219, 220, 220, 220, 221, 222, 223, 223, 223, 223, 223, 223, 223, 223, 224, 224, 224, 224, 224,
    224, 224, 224, 226, 226, 227, 227, 227, 227, 227, 227, 227, 227, 227, 227, 227, 228, 228, 229, 229, 229, 229, 229, 229, 229,
    229, 229, 229, 229, 229, 230, 230, 230, 230, 230, 230, 230, 230, 230, 230, 230, 230, 230, 230, 230, 231, 231, 231, 231, 231,
    231, 231, 231, 231, 231, 231, 231, 231, 231, 231, 231, 231, 231, 231, 231, 231, 231, 232, 232, 232, 232, 232, 232, 232, 232,
    232, 232, 232, 232, 232, 232, 232, 232, 232, 232, 232, 232, 232, 232, 232, 232, 232, 232, 232, 232, 232, 232, 232, 232, 232,
    232, 232, 232, 232, 232, 232, 232, 232, 232, 232, 232, 232, 232, 232, 232, 232, 232, 232, 232, 233, 233, 233, 233, 233, 233,
    233, 233, 233, 233, 233, 233, 234, 234, 234, 235, 235, 235, 235, 235, 235, 235, 235, 235, 235, 235, 235, 235, 235, 236, 237,
    237, 237, 238, 240, 240, 240, 240, 240, 241, 241, 241, 241, 241, 242, 242, 242, 242, 242, 242, 242, 242, 242, 242, 242, 242,
    242, 244, 244, 245, 245, 245, 246, 246, 246, 246, 246, 246, 246, 246, 247, 247, 247, 248, 248, 248, 248, 249, 249, 250, 250,
    250, 251, 251, 251, 251, 251, 251, 251, 251, 251, 251, 251, 251, 251, 251, 251, 251, 251, 251, 252, 252, 252, 253, 253, 253,
    253, 255, 255, 255, 255, 255, 255, 255, 255, 255, 256, 256, 256, 256, 256, 256, 256, 256, 256, 256, 256, 256, 256, 256, 256,
    256, 256, 256, 256, 256, 257, 257, 257, 257, 257, 257, 257, 257, 257, 257, 257, 257, 257, 257, 257, 257, 257, 257, 257, 258,
    258, 258, 259, 259, 259, 259, 259, 259, 259, 259, 259, 259, 259, 259, 259, 259, 259, 259, 259, 259, 259, 259, 259, 259, 259,
    259, 259, 259, 259, 260, 260, 260, 260, 261, 261, 262, 262, 263, 263, 263, 263, 263, 263, 263, 263, 264, 264, 264, 264, 264,
    265, 266, 266, 266, 266, 266, 267, 268, 268, 268, 268, 268, 268, 269, 269, 269, 269, 269, 269, 269, 269, 269, 269, 269, 270,
    270, 270, 270, 270, 270, 270, 270, 270, 270, 270, 270, 270, 270, 270, 270, 270, 270, 270, 270, 270, 270, 270, 270, 270, 270,
    271, 271, 271, 271, 273, 273, 273, 273, 273, 273, 273, 273, 273, 273, 273, 273, 273, 273, 273, 273, 273, 273, 273, 273, 273,
    273, 273, 274, 274, 274, 274, 274, 274, 274, 274, 274, 274, 274, 274, 274, 274, 274, 274, 274, 274, 275, 275, 275, 276, 276,
    276, 276, 276, 277, 277, 277, 277, 277, 278, 278, 278, 278, 278, 278, 278, 278, 278, 278, 278, 278, 278, 278, 279, 279, 280,
    280, 280, 281, 281, 281, 282, 282, 282, 285, 285, 285, 285, 285, 285, 285, 285, 285, 285, 285, 285, 285, 285, 286, 286, 286,
    286, 286, 287, 287, 287, 287, 287, 287, 287, 287, 287, 289, 289, 289, 289, 289, 289, 289, 291, 291, 291, 291, 292, 292, 292,
    295, 295, 295, 295, 295, 296, 296, 296, 296, 296, 296, 296, 296, 296, 296, 296, 296, 296, 296, 296, 296, 296, 297, 297, 297,
    297, 297, 297, 297, 297, 298, 299, 299, 301, 301, 301, 301, 301, 301, 301, 301, 302, 302, 302, 302, 302, 302, 302, 302, 302,
    302, 302, 302, 302, 303, 303, 303, 303, 303, 304, 304, 304, 304, 304, 304, 304, 304, 304, 304, 304, 304, 304, 304, 304, 304,
    304, 305, 305, 305, 305, 305, 305, 305, 305, 305, 305, 305, 305, 305, 305, 305, 305, 305, 306, 306, 306, 306, 306, 306, 307,
    307, 307, 308, 308, 308, 309, 310, 310, 310, 310, 310, 310, 310, 310, 310, 310, 310, 310, 310, 310, 310, 312, 312, 312, 312,
    312, 313, 313, 313, 313, 313, 313, 313, 313, 313, 313, 313, 313, 313, 313, 313, 313, 313, 313, 313, 313, 313, 313, 313, 314,
    314, 314, 314, 314, 315, 315, 315, 315, 316, 316, 317, 317, 317, 317, 317, 317, 317, 317, 317, 317, 317, 317, 317, 317, 317,
    317, 317, 317, 317, 317, 317, 318, 318, 318, 318, 318, 318, 318, 318, 318, 318, 318, 318, 318, 318, 318, 318, 318, 318, 318,
    319, 319, 320, 323, 323, 323, 323, 323, 323, 323, 323, 323, 323, 323, 323, 324, 324, 324, 324, 324, 324, 324, 324, 324, 324,
    324, 324, 325, 325, 325, 325, 325, 326, 326, 326, 326, 326, 326, 326, 326, 326, 326, 327, 327, 327, 327, 327, 327, 327, 327,
    327, 327, 327, 327, 327, 327, 327, 327, 327, 327, 327, 327, 327, 327, 327, 327, 327, 327, 327, 327, 327, 328, 328, 328, 328,
    328, 328, 328, 328, 328, 328, 328, 328, 328, 328, 328, 328, 329, 329, 329, 329, 329, 330, 331, 331, 331, 331, 331, 331, 331,
    331, 331, 331, 331, 331, 331, 331, 331, 331, 331, 331, 331, 331, 331, 331, 332, 332, 332, 332, 332, 332, 332, 332, 332, 332,
    332, 332, 332, 332, 332, 333, 333, 335, 335, 335, 335, 335, 335, 335, 335, 335, 335, 335, 335, 336, 338, 338, 338, 338, 338,
    338, 338, 338, 339, 339, 339, 339, 339, 339, 340, 340, 340, 341, 342, 342, 342, 342, 342, 342, 342, 342, 342, 342, 343, 343,
    343, 343, 343, 343, 343, 343, 343, 343, 343, 343, 343, 343, 343, 343, 343, 343, 343, 344, 344, 344, 344, 344, 344, 344, 344,
    345, 345, 345, 345, 345, 345, 345, 345, 345, 346, 346, 346, 346, 347, 347, 348, 348, 348, 348, 349, 349, 349, 349, 349, 350,
    350, 350, 350, 350, 350, 350, 350, 350, 350, 350, 350, 350, 350, 350, 350, 350, 350, 351, 351, 351, 351, 352, 352, 352, 353,
    354, 354, 354, 354, 354, 354, 355, 355, 355, 355, 355, 356, 356, 357, 357, 359, 359, 359, 359, 360, 361, 361, 361, 361, 361,
    361, 361, 361, 361, 362, 362, 362, 362, 362, 362, 362, 362, 362, 363, 363, 363, 363, 363, 363, 363, 363, 363, 363, 363, 364,
    364, 364, 364, 364, 364, 364, 365, 365, 365, 365, 365, 365, 365, 365, 365, 365, 365, 365, 365, 365, 365, 365, 365, 365, 365,
    366, 366, 366, 367, 367, 367, 368, 368, 368, 368, 368, 368, 368, 368, 368, 368, 368, 368, 368, 368, 368, 368, 368, 368, 368,
    368, 368, 369, 369, 369, 369, 369, 369, 369, 369, 369, 369, 369, 369, 369, 369, 369, 369, 369, 369, 369, 370, 370, 370, 370,
    370, 370, 370, 371, 371, 371, 371, 371, 371, 372, 372, 372, 372, 372, 373, 373, 373, 374, 374, 374, 374, 374, 374, 375, 375,
    375, 375, 375, 375, 375, 375, 375, 375, 375, 375, 375, 375, 376, 376, 376, 376, 376, 376, 376, 377, 377, 377, 377, 377, 378,
    378, 378, 378, 378, 378, 379, 379, 379, 379, 379, 379, 379, 379, 379, 379, 379, 379, 379, 379, 379, 379, 381, 381, 381, 382,
    382, 383, 383, 383, 384, 384, 385, 385, 385, 385, 385, 385, 385, 385, 385, 385, 385, 386, 386, 386, 387, 387, 388, 388, 389,
    389, 389, 391, 391, 391, 391, 391, 391, 391, 391, 391, 391, 391, 391, 392, 392, 392, 392, 392, 393, 393, 394, 394, 394, 394,
    394, 394, 394, 395, 395, 395, 395, 395, 395, 395, 395, 395, 395, 395, 395, 395, 395, 395, 395, 395, 395, 395, 396, 396, 396,
    396, 398, 398, 399, 400, 400, 400, 400, 400, 400, 400, 400, 400, 400, 400, 400, 400, 400, 400, 400, 400, 401, 401, 402, 402,
    402, 402, 402, 403, 403, 403, 403, 403, 404, 404, 404, 404, 404, 404, 404, 404, 404, 404, 404, 404, 404, 404, 405, 405, 406,
    406, 406, 406, 406, 406, 407, 407, 407, 407, 407, 407, 407, 407, 407, 407, 407, 407, 407, 407, 407, 407, 409, 411, 411, 411,
    414, 414, 414, 415, 416, 416, 416, 416, 416, 416, 416, 416, 416, 416, 418, 418, 418, 418, 418, 418, 418, 418, 418, 418, 418,
    418, 420, 420, 420, 420, 420, 420, 420, 420, 420, 420, 420, 421, 421, 421, 422, 422, 423, 424, 424, 424, 424, 424, 424, 424,
    424, 424, 424, 424, 424, 424, 424, 424, 425, 425, 425, 425, 425, 426, 426, 426, 426, 426, 426, 426, 426, 426, 426, 426, 426,
    426, 426, 426, 426, 426, 426, 426, 426, 427, 427, 428, 429, 429, 429, 429, 429, 429, 429, 430, 430, 430, 430, 430, 430, 430,
    430, 432, 432, 432, 432, 432, 432, 434, 434, 434, 434, 434, 434, 434, 434, 434, 434, 434, 434, 434, 434, 435, 435, 436, 437,
    437, 437, 437, 437, 437, 438, 438, 438, 438, 438, 438, 439, 439, 439, 439, 439, 439, 439, 439, 439, 439, 439, 439, 439, 439,
    439, 439, 439, 439, 439, 439, 439, 439, 439, 439, 439, 439, 439, 440, 440, 440, 440, 440, 440, 440, 440, 440, 441, 441, 441,
    441, 441, 441, 441, 441, 441, 441, 441, 441, 441, 441, 441, 441, 441, 442, 442, 442, 444, 444, 444, 444, 444, 444, 444, 445,
    445, 445, 445, 445, 445, 445, 445, 445, 445, 445, 445, 445, 445, 445, 445, 445, 445, 445, 445, 445, 445, 445, 445, 445, 445,
    445, 445, 445, 446, 446, 447, 447, 447, 447, 447, 447, 447, 447, 447, 447, 448, 448, 448, 448, 448, 449, 449, 449, 449, 449,
    449, 449, 450, 450, 450, 450, 450, 450, 450, 452, 452, 452, 452, 452, 452, 452, 452, 452, 452, 452, 453, 453, 453, 453, 453,
    453, 453, 453, 453, 453, 453, 453, 454, 455, 455, 455, 455, 455, 455, 455, 455, 455, 455, 455, 455, 455, 457, 457, 457, 457,
    457, 457, 458, 458, 458, 458, 459, 459, 459, 459, 459, 459, 459, 459, 459, 459, 459, 459, 459, 460, 461, 461, 461, 461, 462,
    462, 462, 462, 462, 462, 462, 462, 462, 462, 462, 462, 462, 462, 462, 462, 462, 462, 462, 462, 463, 463, 464, 464, 464, 467,
    467, 467, 467, 467, 467, 467, 467, 467, 467, 467, 468, 469, 470, 470, 470, 470, 470, 470, 470, 470, 470, 470, 470, 470, 470,
    470, 470, 470, 470, 470, 470, 470, 470, 470, 470, 470, 470, 470, 470, 470, 470, 470, 470, 470, 470, 471, 471, 471, 471, 471,
    471, 471, 472, 472, 472, 474, 474, 474, 474, 474, 474, 474, 474, 474, 475, 475, 475, 476, 476, 476, 476, 476, 476, 476, 476,
    476, 476, 479, 479, 479, 479, 479, 479, 479, 481, 481, 481, 481, 482, 482, 482, 482, 482, 482, 482, 482, 482, 482, 483, 483,
    483, 483, 483, 483, 483, 484, 485, 485, 485, 485, 485, 486, 486, 486, 486, 488, 488, 488, 488, 488, 488, 490, 490, 490, 491,
    491, 492, 492, 493, 493, 493, 494, 494, 494, 494, 494, 494, 494, 494, 494, 494, 494, 494, 495, 497, 497, 497, 497, 497, 497,
    500, 500, 500, 500, 500, 500, 500, 500, 500, 500, 500, 500, 500, 500, 500, 500, 500, 500, 500, 500, 500, 501, 501, 501, 501,
    501, 501, 501, 501, 501, 501, 501, 501, 502, 502, 502, 502, 502, 502, 502, 502, 502, 502, 502, 502, 502, 502, 502, 502, 502,
    503, 503, 503, 504, 504, 504, 505, 505, 505, 505, 505, 505, 505, 505, 505, 505, 505, 505, 505, 505, 505, 506, 507, 507, 508,
    508, 508, 509, 509, 509, 509, 509, 509, 509, 509, 509, 509, 509, 509, 509, 509, 509, 509, 509, 510, 510, 510, 510, 510, 510,
    510, 510, 510, 510, 510, 510, 510, 510, 510, 510, 510, 510, 510, 510, 510, 510, 510, 510, 510, 510, 511, 511, 511, 511, 511,
    511, 511, 512, 512, 512, 512, 512, 512, 512, 512, 512, 512, 513, 514, 514, 515, 515, 515, 516, 516, 516, 516, 516, 516, 516,
    516, 516, 516, 516, 516, 516, 518, 518, 518, 518, 518, 518, 518, 518, 519, 519, 519, 519, 520, 520, 520, 520, 520, 520, 520,
    520, 520, 520, 520, 520, 521, 521, 521, 521, 521, 521, 522, 522, 522, 522, 522, 522, 522, 523, 525, 525, 526, 526, 526, 526,
    526, 527, 527, 527, 527, 527, 527, 527, 527, 528, 528, 529, 529, 529, 530, 530, 530, 530, 530, 530, 530, 530, 530, 531, 531,
    531, 531, 531, 531, 531, 531, 531, 531, 533, 533, 533, 533, 533, 534, 534, 534, 534, 534, 534, 534, 534, 534, 534, 534, 534,
    536, 536, 536, 536, 536, 536, 536, 536, 536, 536, 536, 536, 536, 536, 536, 536, 536, 536, 536, 536, 536, 536, 536, 536, 536,
    536, 536, 536, 536, 536, 536, 536, 536, 536, 536, 536, 536, 537, 537, 538, 538, 538, 538, 538, 538, 538, 538, 538, 538, 538,
    538, 538, 538, 538, 538, 538, 538, 538, 538, 538, 538, 538, 538, 539, 539, 540, 540, 540, 541, 541, 541, 541, 541, 541, 541,
    541, 541, 541, 543, 543, 543, 543, 543, 543, 545, 545, 545, 545, 545, 545, 545, 545, 545, 545, 545, 545, 545, 545, 545, 545,
    545, 545, 545, 545, 545, 545, 545, 545, 545, 546, 546, 546, 546, 546, 546, 548, 548, 548, 548, 548, 548, 548, 548, 548, 548,
    548, 548, 548, 548, 550, 550, 550, 550, 550, 550, 550, 550, 550, 550, 550, 550, 550, 550, 550, 550, 550, 550, 550, 550, 550,
    550, 551, 551, 551, 551, 551, 552, 552, 552, 552, 552, 552, 552, 552, 552, 552, 552, 552, 552, 552, 552, 552, 554, 554, 554,
    554, 554, 554, 554, 554, 554, 554, 554, 554, 555, 555, 555, 555, 556, 556, 556, 557, 557, 557, 557, 557, 558, 558, 558, 558,
    558, 558, 558, 558, 558, 559, 559, 559, 560, 561, 561, 561, 561, 561, 561, 562, 562, 562, 562, 562, 563, 563, 563, 564, 564,
    564, 564, 565, 565, 565, 565, 565, 565, 565, 565, 565, 566, 566, 566, 566, 567, 567, 567, 567, 569, 569, 569, 570, 570, 570,
    570, 570, 570, 570, 570, 570, 570, 570, 572, 572, 572, 572, 572, 573, 573, 575, 576, 578, 578, 578, 579, 580, 580, 580, 580,
    580, 580, 581, 581, 582, 582, 583, 583, 583, 584, 584, 584, 584, 584, 584, 585, 585, 585, 585, 585, 586, 586, 586, 586, 586,
    586, 586, 586, 586, 588, 588, 589, 589, 589, 590, 591, 591, 591, 591, 591, 591, 591, 593, 593, 593, 593, 593, 594, 594, 594,
    595, 595, 595, 595, 595, 595, 596, 596, 596, 596, 596, 596, 596, 596, 596, 597, 597, 597, 597, 597, 598, 598, 598, 598, 598,
    599, 599, 599, 599, 599, 601, 601, 601, 601, 601, 601, 601, 601, 601, 601, 601, 601, 601, 601, 601, 603, 603, 603, 603, 603,
    603, 603, 603, 603, 603, 604, 604, 604, 606, 606, 606, 606, 606, 607, 607, 607, 608, 608, 608, 608, 608, 608, 608, 609, 609,
    609, 610, 610, 610, 611, 612, 612, 612, 612, 612, 612, 612, 613, 613, 613, 613, 613, 614, 615, 615, 615, 615, 615, 615, 615,
    616, 616, 616, 616, 616, 616, 616, 616, 616, 616, 616, 616, 617, 617, 617, 617, 617, 617, 617, 617, 617, 617, 617, 617, 617,
    617, 617, 618, 619, 619, 619, 619, 619, 619, 619, 619, 619, 619, 619, 619, 619, 619, 619, 619, 619, 619, 619, 619, 619, 619,
    619, 619, 619, 621, 621, 621, 621, 621, 621, 621, 622, 623, 623, 623, 623, 623, 623, 623, 623, 623, 623, 623, 623, 625, 625,
    625, 625, 625, 625, 626, 626, 626, 626, 626, 626, 626, 626, 626, 626, 626, 626, 626, 626, 626, 627, 627, 627, 627, 627, 627,
    627, 627, 629, 629, 629, 629, 629, 629, 629, 629, 629, 629, 629, 629, 629, 630, 630, 630, 630, 630, 630, 630, 630, 630, 630,
    631, 631, 631, 631, 631, 631, 631, 631, 631, 631, 631, 631, 631, 631, 631, 631, 632, 632, 633, 633, 633, 633, 634, 634, 634,
    634, 634, 634, 634, 634, 634, 635, 638, 638, 639, 639, 639, 640, 640, 640, 640, 640, 640, 640, 641, 642, 643, 643, 643, 644,
    644, 644, 644, 645, 646, 646, 646, 646, 647, 648, 648, 649, 649, 649, 650, 650, 650, 650, 651, 652, 652, 654, 654, 655, 657,
    657, 658, 658, 658, 660, 660, 660, 660, 660, 660, 660, 660, 660, 660, 660, 660, 660, 660, 660, 660, 660, 660, 661, 661, 662,
    662, 663, 663, 663, 663, 663, 663, 663, 664, 664, 664, 664, 664, 664, 664, 664, 664, 665, 665, 665, 665, 665, 665, 666, 666,
    666, 666, 666, 666, 666, 667, 667, 667, 667, 667, 667, 667, 667, 668, 668, 668, 669, 669, 670, 670, 670, 670, 670, 670, 670,
    671, 671, 671, 671, 671, 671, 671, 671, 671, 671, 671, 671, 671, 671, 671, 672, 672, 672, 672, 672, 672, 672, 672, 672, 672,
    672, 673, 673, 674, 674, 676, 676, 677, 678, 678, 678, 678, 678, 678, 679, 679, 679, 679, 679, 679, 679, 679, 680, 680, 680,
    680, 680, 680, 680, 680, 680, 680, 680, 680, 681, 681, 681, 681, 681, 681, 681, 681, 681, 683, 683, 683, 683, 683, 683, 683,
    683, 683, 684, 684, 684, 684, 684, 684, 684, 684, 684, 684, 685, 685, 686, 686, 687, 687, 687, 687, 687, 688, 688, 688, 689,
    689, 689, 689, 689, 690, 690, 690, 690, 690, 690, 690, 690, 690, 690, 690, 691, 691, 691, 691, 691, 691, 691, 691, 691, 691,
    691, 691, 691, 691, 692, 692, 692, 692, 692, 692, 692, 692, 692, 692, 692, 692, 692, 692, 692, 692, 692, 692, 692, 692, 693,
    694, 694, 694, 694, 694, 694, 694, 694, 694, 694, 694, 694, 694, 694, 694, 694, 696, 696, 696, 696, 696, 696, 696, 696, 696,
    696, 696, 697, 698, 698, 698, 698, 699, 699, 699, 699, 700, 700, 701, 701, 701, 701, 701, 701, 701, 701, 701, 701, 701, 701,
    701, 701, 701, 701, 701, 701, 703, 703, 703, 703, 703, 703, 703, 703, 703, 703, 703, 703, 703, 703, 703, 703, 705, 705, 705,
    705, 705, 705, 707, 707, 707, 707, 707, 707, 708, 709, 709, 709, 710, 710, 710, 710, 710, 710, 710, 710, 711, 711, 711, 711,
    711, 711, 711, 711, 711, 712, 712, 712, 712, 712, 712, 712, 712, 712, 712, 712, 712, 712, 712, 712, 712, 712, 712, 712, 713,
    713, 713, 713, 713, 713, 713, 713, 713, 713, 713, 713, 713, 713, 713, 713, 713, 713, 713, 713, 713, 713, 715, 715, 715, 715,
    715, 715, 715, 715, 715, 715, 715, 717, 717, 717, 717, 717, 717, 717, 717, 717, 717, 719, 719, 719, 719, 719, 719, 719, 720,
    721, 721, 721, 721, 721, 721, 722, 722, 722, 722, 722, 722, 722, 722, 723, 723, 723, 723, 724, 724, 724, 724, 724, 724, 725,
    726, 726, 726, 726, 726, 726, 726, 726, 726, 726, 726, 726, 726, 726, 726, 726, 726, 726, 727, 728, 728, 728, 728, 729, 729,
    730, 730, 730, 730, 730, 730, 730, 731, 731, 732, 732, 732, 732, 732, 732, 732, 732, 732, 732, 732, 732, 732, 732, 732, 732,
    732, 733, 733, 733, 733, 734, 734, 734, 734, 734, 734, 734, 734, 734, 734, 734, 734, 734, 735, 735, 735, 735, 735, 735, 735,
    735, 735, 735, 735, 735, 735, 735, 735, 735, 735, 735, 737, 737, 737, 738, 738, 739, 739, 739, 739, 739, 741, 741, 745, 745,
    745, 745, 748, 748, 749, 749, 749, 749, 749, 749, 749, 750, 750, 750, 750, 752, 752, 752, 753, 753, 753, 754, 754, 755, 755,
    755, 755, 755, 755, 755, 755, 755, 755, 755, 755, 755, 755, 755, 755, 755, 755, 756, 756, 756, 757, 757, 757, 757, 757, 758,
    760, 761, 761, 761, 761, 761, 761, 761, 761, 761, 761, 761, 761, 761, 761, 761, 761, 761, 761, 762, 762, 762, 762, 762, 762,
    762, 762, 762, 762, 762, 762, 762, 762, 762, 763, 763, 763, 763, 763, 764, 766, 766, 766, 767, 767, 767, 767, 767, 767, 767,
    767, 767, 767, 767, 767, 767, 767, 769, 769, 770, 770, 770, 770, 770, 770, 772, 772, 773, 774, 774, 774, 774, 774, 774, 774,
    774, 774, 774, 774, 774, 775, 776, 776, 776, 776, 776, 776, 776, 776, 777, 777, 777, 777, 777, 777, 779, 779, 779, 779, 779,
    779, 780, 780, 780, 780, 780, 780, 781, 781, 781, 781, 782, 782, 782, 782, 782, 782, 782, 782, 782, 782, 782, 782, 782, 782,
    782, 782, 783, 783, 783, 783, 783, 783, 783, 784, 784, 784, 784, 784, 784, 785, 785, 785, 785, 785, 785, 785, 787, 787, 787,
    787, 787, 787, 787, 787, 787, 787, 787, 787, 788, 788, 789, 789, 790, 792, 792, 792, 792, 792, 792, 792, 792, 793, 793, 793,
    793, 793, 794, 794, 794, 794, 794, 795, 795, 795, 796, 796, 796, 796, 796, 796, 796, 796, 796, 796, 796, 796, 796, 796, 796,
    796, 796, 797, 797, 797, 797, 799, 799, 800, 801, 801, 801, 802, 802, 802, 802, 802, 802, 802, 803, 803, 803, 804, 804, 804,
    804, 804, 804, 804, 804, 804, 804, 804, 804, 804, 804, 804, 804, 804, 805, 805, 805, 805, 805, 805, 805, 805, 805, 805, 805,
    805, 806, 806, 806, 806, 806, 806, 806, 806, 806, 806, 807, 807, 807, 807, 807, 808, 808, 808, 809, 809, 809, 809, 809, 809,
    809, 809, 809, 809, 809, 809, 809, 809, 809, 809, 809, 809, 809, 809, 809, 809, 809, 809, 810, 810, 810, 810, 810, 810, 810,
    810, 810, 810, 810, 810, 810, 810, 810, 810, 810, 811, 811, 812, 812, 812, 814, 814, 814, 814, 814, 814, 815, 815, 815, 815,
    815, 815, 815, 815, 815, 815, 816, 817, 817, 818, 818, 819, 819, 819, 821, 821, 821, 821, 821, 821, 823, 823, 823, 823, 823,
    823, 824, 824, 824, 824, 824, 825, 825, 825, 825, 825, 825, 825, 825, 825, 825, 825, 825, 825, 825, 825, 825, 825, 826, 827,
    827, 828, 828, 828, 828, 828, 828, 828, 828, 829, 829, 829, 829, 829, 829, 829, 829, 829, 829, 829, 829, 829, 829, 829, 829,
    829, 829, 829, 829, 829, 831, 833, 833, 834, 835, 836, 836, 836, 836, 836, 836, 837, 837, 837, 837, 837, 837, 837, 837, 838,
    838, 838, 838, 838, 838, 838, 838, 838, 838, 838, 839, 839, 839, 839, 839, 839, 839, 839, 839, 839, 839, 839, 839, 839, 839,
    839, 839, 839, 841, 841, 841, 841, 842, 842, 842, 842, 842, 842, 842, 842, 843, 843, 843, 843, 843, 843, 843, 843, 843, 843,
    843, 843, 843, 843, 845, 845, 845, 845, 845, 846, 846, 847, 849, 849, 849, 849, 850, 850, 850, 850, 850, 850, 850, 850, 850,
    850, 850, 850, 850, 850, 850, 851, 851, 851, 851, 851, 852, 852, 852, 852, 852, 852, 852, 853, 854, 854, 854, 854, 854, 854,
    854, 855, 855, 857, 857, 857, 857, 857, 857, 857, 857, 857, 857, 857, 857, 858, 858, 858, 858, 858, 859, 859, 859, 859, 859,
    859, 859, 861, 862, 862, 862, 863, 863, 864, 864, 864, 864, 865, 865, 865, 865, 865, 865, 865, 865, 865, 865, 865, 867, 867,
    868, 868, 869, 869, 869, 870, 871, 871, 873, 873, 873, 873, 873, 873, 874, 874, 874, 874, 874, 874, 874, 875, 875, 876, 877,
    877, 878, 880, 881, 883, 883, 883, 883, 883, 884, 884, 884, 884, 885, 885, 885, 886, 886, 886, 887, 888, 888, 888, 888, 888,
    888, 889, 889, 889, 889, 889, 889, 889, 889, 889, 889, 889, 889, 891, 893, 893, 893, 894, 894, 894, 894, 894, 894, 894, 894,
    894, 894, 894, 894, 895, 895, 895, 895, 895, 895, 896, 896, 896, 896, 896, 896, 896, 896, 896, 896, 896, 896, 896, 896, 896,
    896, 896, 896, 897, 897, 897, 897, 897, 897, 897, 897, 898, 898, 898, 898, 898, 898, 898, 898, 898, 898, 900, 900, 900, 901,
    901, 901, 901, 901, 901, 901, 901, 902, 902, 902, 902, 903, 903, 903, 903, 903, 903, 904, 906, 906, 906, 906, 906, 906, 906,
    906, 906, 906, 907, 907, 907, 908, 909, 909, 909, 909, 909, 909, 909, 909, 909, 909, 909, 909, 910, 911, 911, 913, 913, 914,
    914, 914, 914, 914, 915, 916, 917, 917, 917, 917, 917, 917, 917, 919, 919, 919, 919, 919, 919, 919, 919, 919, 919, 919, 919,
    921, 921, 921, 921, 921, 921, 921, 921, 921, 921, 921, 921, 921, 921, 921, 921, 921, 921, 921, 921, 921, 921, 921, 921, 921,
    921, 921, 921, 921, 921, 921, 921, 921, 921, 921, 921, 921, 921, 921, 921, 921, 921, 921, 921, 921, 921, 921, 921, 921, 921,
    921, 921, 921, 921, 921, 921, 921, 921, 921, 921, 922, 923, 924, 924, 924, 925, 925, 925, 925, 925, 925, 925, 925, 925, 925,
    925, 926, 926, 926, 926, 926, 926, 926, 926, 926, 926, 926, 926, 926, 926, 926, 926, 926, 926, 926, 926, 926, 926, 926, 926,
    926, 927, 927, 927, 927, 927, 927, 927, 928, 928, 928, 928, 929, 929, 931, 931, 931, 931, 931, 931, 931, 931, 931, 932, 932,
    932, 932, 932, 932, 932, 932, 932, 932, 932, 932, 932, 932, 932, 932, 932, 932, 932, 933, 933, 933, 933, 933, 933, 933, 933,
    933, 933, 933, 933, 933, 933, 934, 934, 934, 935, 935, 936, 936, 936, 936, 936, 936, 936, 937, 937, 937, 937, 938, 938, 938,
    939, 940, 940, 940, 940, 940, 941, 941, 942, 943, 944, 944, 944, 944, 945, 946, 946, 946, 947, 947, 947, 947, 947, 948, 948,
    948, 948, 948, 948, 948, 948, 948, 948, 948, 949, 949, 949, 949, 950, 950, 950, 950, 950, 950, 950, 950, 951, 953, 954, 955,
    955, 955, 955, 955, 955, 955, 955, 955, 955, 956, 956, 956, 956, 956, 956, 957, 957, 958, 958, 958, 958, 958, 958, 958, 958,
    958, 958, 958, 959, 959, 959, 959, 959, 960, 960, 961, 962, 962, 962, 962, 964, 964, 964, 964, 964, 964, 964, 964, 964, 964,
    964, 965, 966, 966, 966, 967, 967, 967, 967, 967, 967, 967, 967, 967, 967, 967, 967, 967, 967, 967, 969, 969, 969, 969, 969,
    969, 969, 969, 971, 971, 971, 971, 972, 973, 974, 974, 974, 974, 974, 974, 975, 975, 976, 976, 976, 976, 976, 976, 976, 976,
    976, 976, 976, 976, 976, 976, 976, 976, 976, 976, 976, 976, 977, 977, 977, 977, 977, 977, 977, 977, 978, 979, 979, 979, 979,
    979, 979, 979, 980, 980, 980, 980, 980, 980, 981, 982, 982, 982, 984, 984, 984, 984, 984, 984, 984, 984, 984, 984, 984, 984,
    984, 984, 984, 984, 985, 985, 985, 986, 986, 986, 987, 987, 987, 987, 987, 987, 987, 987, 987, 987, 987, 988, 988, 989, 989,
    989, 989, 990, 990, 990, 990, 990, 990, 990, 990, 991, 991, 991, 991, 992, 992, 992, 992, 992, 992, 992, 993, 994, 994, 995,
    995, 995, 995, 995, 995, 995, 996, 996, 996, 996, 997, 997, 997, 997, 997, 997, 997, 997, 997, 997, 997, 997, 998, 998, 998,
    999, 999, 999, 999
>>

\* lines 132 and 148: init once the counter stands at tries
InitAt(tries) == IF tries = 0 THEN 0 ELSE CollisionOffset

\* lines 137-159 for the birds that left the code loop with tries[i] collisions
IssuedOf(tries) ==
    [i \in 1..Len(tries) |->
        LET tid == ThreeDigitId(i, InitAt(tries[i]), tries[i])
        IN  [bird_id |-> Digits(i),
             bird_index |-> i,
             attempts |-> tries[i],
             three_digit_id |-> tid,
             bird_code |-> md5_last4(tid)]]

RECURSIVE CatalogOf(_, _, _, _)
\* line 159 for the birds done[lo..hi]: the accumulator holds their entries
CatalogOf(done, lbls, lo, hi) ==
    IF lo > hi THEN EmptyMap
    ELSE IF lo = hi
         THEN done[lo].bird_code :>
                  BirdData(lbls, done[lo].bird_id, done[lo].three_digit_id)
         ELSE LET mid == (lo + hi) \div 2
              IN  CatalogOf(done, lbls, lo, mid) @@ CatalogOf(done, lbls, mid + 1, hi)

\* The state of a run on birds 1..Len(videos), all complete, when the for
\* loop of line 128 has finished the birds 1..Len(tries) without a failure
\* and line 128 takes the next one; the locals are as the last bird left them.
BetweenItems(videos, imgs, lbls, tries) ==
    LET done == IssuedOf(tries)
        n == Len(tries)
        codes == {done[i].bird_code : i \in 1..n}
    IN  /\ video_files = videos
        /\ image_files = imgs
        /\ labels = lbls
        /\ file_pairs = [i \in 1..Len(videos) |->
                            [bird_id |-> Digits(i),
                             files |-> [video |-> <<videos[i]>>,
                                        image |-> <<imgs[i]>>]]]
        /\ missing_components = <<>>
        /\ scan = 1
        /\ cur = n + 1
        /\ bird_index = n + 1
        /\ used_codes = codes
        /\ birdmap = CatalogOf(done, lbls, 1, n)
        /\ issued = done
        /\ attempts = tries[n]
        /\ init = InitAt(tries[n])
        /\ three_digit_id = done[n].three_digit_id
        /\ bird_code = done[n].bird_code
        /\ mp3_success = TRUE
        /\ jpg_success = TRUE
        /\ sounds = codes
        /\ images = codes
        /\ birdmap_json = <<>>
        /\ calls = [j \in 1..(2 * n) |->
                       [step |-> IF j % 2 = 1 THEN "ffmpeg" ELSE "copy2",
                        item |-> (j + 1) \div 2,
                        code |-> done[(j + 1) \div 2].bird_code,
                        ok |-> TRUE]]
        /\ pc = "assign"
        /\ result = "running"

\* how many of the last birds that receive a code the run is taken up before
HugeStarts == 2

\* the run on the huge input, at the point where one of its last birds is
\* reached: the last ones that receive a code, or the one after them
InitHuge ==
    /\ \E back \in 0..(HugeStarts - 1) :
          BetweenItems(HugeVideos, HugeImages, HugeLabels,
                       SubSeq(HugeAttempts, 1, Len(HugeAttempts) - back))
    /\ labels_txt = [exists |-> TRUE, lines |-> <<>>]
    /\ lines_read = <<>>

\* the runs of process_videos, and the run on the huge input from the points
\* where InitHuge takes it up
SpecHuge == (Init \/ InitHuge) /\ [][Next]_vars

\* ------------------------------------------------------------------ claims
\* The inputs, read without the join: the ids the listings expose and the
\* facets each has.
VideoId(stem) == ExtractVideoId(stem)
VideoIds == {VideoId(video_files[i]) : i \in 1..Len(video_files)}
ImageIds == {image_files[i] : i \in 1..Len(image_files)}
JoinedIds == VideoIds \cup ImageIds
HasVideo(id) == id \in VideoIds
HasImage(id) == id \in ImageIds
HasLabel(id) == id \in DOMAIN labels
Complete(id) == HasVideo(id) /\ HasImage(id) /\ HasLabel(id)
\* some joined id is not in all three of: video ids, image ids, label ids
SomeIncomplete ==
    LET v == VideoIds
        g == ImageIds
    IN  ~((v \cup g) \subseteq ((v \cap g) \cap DOMAIN labels))

NothingProduced ==
    /\ used_codes = {}
    /\ issued = <<>>
    /\ calls = <<>>
    /\ sounds = {}
    /\ images = {}
    /\ birdmap_json = <<>>

\* C1: when some joined bird lacks its video, its image or its label, the
\* run never leaves the listing and validation steps: no code is issued
\* (used_codes stays empty), no production step is invoked and no .mp3 or
\* .jpg exists for any bird, no catalog document is written, and the only
\* exit the run takes is the cancellation.
C1_ValidationGate ==
    SomeIncomplete =>
        /\ NothingProduced
        /\ pc \in {"start", "videos", "images", "validate", "done"}
        /\ pc = "done" => result = "cancelled"

\* C1 witness: a cancelled run whose input also held a complete bird
C1_Witness ==
    /\ pc = "done"
    /\ result = "cancelled"
    /\ \E id \in JoinedIds : Complete(id)
    /\ \E id \in JoinedIds : HasVideo(id) /\ HasLabel(id) /\ ~HasImage(id)

\* C2: no code is issued to two birds; the accumulator holds one key per
\* bird that received a code; a written catalog has pairwise distinct keys,
\* one per joined bird.
C2_CodesUnique ==
    /\ \A i, j \in 1..Len(issued) :
          i # j => issued[i].bird_code # issued[j].bird_code
    /\ Cardinality(DOMAIN birdmap) = Len(issued)
    /\ used_codes = {issued[i].bird_code : i \in 1..Len(issued)}
    /\ \A d \in 1..Len(birdmap_json) :
          Cardinality(DOMAIN birdmap_json[d]) = Cardinality(JoinedIds)

\* C2 witness: a written catalog of a run in which a candidate collided
C2_Witness ==
    /\ result = "saved"
    /\ \E i \in 1..Len(issued) :
          /\ issued[i].attempts > 0
          /\ \E j \in 1..(i - 1) :
                issued[j].bird_code = md5_last4(ZeroPad3(issued[i].bird_index))

FileRemains(code) == code \in sounds \/ code \in images

\* C3 as stated: after the abort on a failed production step neither file
\* of the failing bird's code exists and neither the accumulator nor a
\* written document has an entry for the code.
C3_AsStated ==
    result = "failed" =>
        /\ ~FileRemains(bird_code)
        /\ bird_code \notin DOMAIN birdmap
        /\ \A d \in 1..Len(birdmap_json) : bird_code \notin DOMAIN birdmap_json[d]

\* C3 amended: after the abort on a failed production step neither file of
\* the failing bird's code exists and no catalog document has been written;
\* the accumulator still holds the entry stored when the code was bound.
C3_Rollback ==
    result = "failed" =>
        /\ ~FileRemains(bird_code)
        /\ birdmap_json = <<>>
        /\ bird_code \in DOMAIN birdmap
        /\ bird_code = issued[Len(issued)].bird_code

\* C3 witness: the abort after the audio succeeded and the copy failed
C3_Witness ==
    /\ result = "failed"
    /\ mp3_success
    /\ ~jpg_success

C5_CodeDeterminism ==
    /\ \A i \in 1..Len(issued) :
          (\A j \in 1..i : issued[j].attempts = 0) =>
              /\ issued[i].bird_index = i
              /\ issued[i].three_digit_id = ZeroPad3(i)
              /\ issued[i].bird_code = MD5Tail[i]
              /\ issued[i].bird_id = file_pairs[i].bird_id
    /\ pc \in {"assign", "audio", "image", "check"} => bird_index = cur

\* C5 witness: the second bird of a run has received its code
C5_Witness ==
    /\ Len(issued) >= 2
    /\ issued[2].attempts = 0
    /\ issued[2].bird_code = "f05a"

C7_AsStated ==
    (pc = "done" /\ result \in {"failed", "exhausted"}) =>
        \A c \in sounds \cup images :
            \E d \in 1..Len(birdmap_json) : c \in DOMAIN birdmap_json[d]

\* C8: the production steps run in order, ffmpeg then copy2, once per bird
\* that holds a code; a failed step belongs to the last bird that received a
\* code, so no later bird gets a code or a step; when the run has aborted
\* both steps of the failing bird have been attempted, the copy also after
\* a failed extraction.
C8_AbortStopsProcessing ==
    /\ Len(calls) <= 2 * Len(issued)
    /\ \A k \in 1..Len(calls) :
          /\ calls[k].item = (k + 1) \div 2
          /\ calls[k].step = IF k % 2 = 1 THEN "ffmpeg" ELSE "copy2"
          /\ calls[k].code = issued[calls[k].item].bird_code
          /\ ~calls[k].ok =>
                /\ calls[k].item = Len(issued)
                /\ pc \in {"image", "check", "done"}
                /\ pc = "done" => result = "failed"
    /\ result = "failed" =>
          /\ Len(calls) = 2 * Len(issued)
          /\ ~calls[Len(calls) - 1].ok \/ ~calls[Len(calls)].ok

\* C8 witness: the abort after a failed extraction, the copy attempted all
\* the same, with birds still waiting
C8_Witness ==
    /\ result = "failed"
    /\ Len(issued) < Len(file_pairs)
    /\ ~calls[Len(calls) - 1].ok
    /\ calls[Len(calls)].step = "copy2"
    /\ calls[Len(calls)].item = Len(issued)

\* C9: a written catalog has one entry per joined bird, with the names of
\* the bird's label entry, and both files of the entry's code exist; no
\* label entry has received an id field.
C9_Completeness ==
    /\ \A d \in 1..Len(birdmap_json) :
          LET doc == birdmap_json[d]
          IN  /\ {issued[i].bird_id : i \in 1..Len(issued)} = JoinedIds
              /\ Len(issued) = Cardinality(JoinedIds)
              /\ DOMAIN doc = {issued[i].bird_code : i \in 1..Len(issued)}
              /\ Cardinality(DOMAIN doc) = Cardinality(JoinedIds)
              /\ \A i \in 1..Len(issued) :
                    LET code == issued[i].bird_code
                        label == labels[issued[i].bird_id]
                    IN  /\ doc[code].common = label.common
                        /\ doc[code].scientific = label.scientific
                        /\ code \in sounds
                        /\ code \in images
    /\ \A id \in DOMAIN labels : DOMAIN labels[id] = {"common", "scientific"}

\* C9 witness: a written catalog with two birds of different names
C9_Witness ==
    /\ result = "saved"
    /\ \E i, j \in 1..Len(issued) :
          birdmap_json[1][issued[i].bird_code].common
             # birdmap_json[1][issued[j].bird_code].common

\* The extraction rule read off a stem, without the code's index arithmetic.
Has(s, ch) == \E i \in 1..Len(s) : s[i] = ch
LastIndex(s, ch) ==
    CHOOSE i \in 1..Len(s) : s[i] = ch /\ \A j \in (i + 1)..Len(s) : s[j] # ch
Lower(a, b) == IF a < b THEN a ELSE b
Upper(a, b) == IF a < b THEN b ELSE a

\* the characters lying between the last "(" and the last ")", whichever
\* comes first
IdAsStated(s) ==
    IF Has(s, "(") /\ Has(s, ")")
    THEN LET a == LastIndex(s, "(")
             b == LastIndex(s, ")")
         IN  SubSeq(s, Lower(a, b) + 1, Upper(a, b) - 1)
    ELSE s

\* the same, but empty when the last ")" comes before the last "("
IdAmended(s) ==
    IF Has(s, "(") /\ Has(s, ")")
    THEN LET a == LastIndex(s, "(")
             b == LastIndex(s, ")")
         IN  IF a < b THEN SubSeq(s, a + 1, b - 1) ELSE <<>>
    ELSE s

ScannedVideos ==
    IF pc = "start" THEN {}
    ELSE IF pc = "videos" THEN {video_files[i] : i \in 1..(scan - 1)}
    ELSE IF result = "no_files" THEN {}
    ELSE {video_files[i] : i \in 1..Len(video_files)}

VideoFacetIds ==
    {file_pairs[k].bird_id : k \in {n \in 1..Len(file_pairs) : file_pairs[n].files.video # <<>>}}

\* C10 as stated: every clip is filed under the characters between the last
\* "(" and the last ")" of its stem, in whichever order the two occur, or
\* under the whole stem when one of them is absent; an image under its stem.
C10_AsStated ==
    /\ VideoFacetIds = {IdAsStated(s) : s \in ScannedVideos}
    /\ \A k \in 1..Len(file_pairs) :
          LET p == file_pairs[k]
          IN  /\ p.files.video # <<>> => p.bird_id = IdAsStated(p.files.video[1])
              /\ p.files.image # <<>> => p.bird_id = p.files.image[1]

\* C10 amended: every clip is filed under the characters between the last
\* "(" and the last ")" of its stem when the "(" comes first, under the
\* empty id when the last ")" comes before the last "(", and under the
\* whole stem when one of them is absent; an image under its stem.
C10_VideoIdExtraction ==
    /\ VideoFacetIds = {IdAmended(s) : s \in ScannedVideos}
    /\ \A k \in 1..Len(file_pairs) :
          LET p == file_pairs[k]
          IN  /\ p.files.video # <<>> => p.bird_id = IdAmended(p.files.video[1])
              /\ p.files.image # <<>> => p.bird_id = p.files.image[1]

\* C10 witness: a clip whose last ")" comes before its last "(", with a
\* character between them, filed under the empty id
C10_Witness ==
    \E k \in 1..Len(file_pairs) :
        /\ file_pairs[k].files.video # <<>>
        /\ LET s == file_pairs[k].files.video[1]
           IN  /\ Has(s, "(") /\ Has(s, ")")
               /\ LastIndex(s, ")") + 1 < LastIndex(s, "(")
        /\ file_pairs[k].bird_id = <<>>

ListedIds ==
    [i \in 1..(Len(video_files) + Len(image_files)) |->
        IF i <= Len(video_files) THEN VideoId(video_files[i])
        ELSE image_files[i - Len(video_files)]]
Least(S) == CHOOSE i \in S : \A j \in S : i <= j
Greatest(S) == CHOOSE i \in S : \A j \in S : j <= i
PlacesOf(ids, id) == {i \in 1..Len(ids) : ids[i] = id}

\* file_pairs lists every listed id once, by first appearance, each with
\* the last clip and the last image of that id
JoinedInListingOrder ==
    LET listed == ListedIds
        clips == SubSeq(listed, 1, Len(video_files))
        joined == {listed[i] : i \in 1..Len(listed)}
    IN  /\ {file_pairs[k].bird_id : k \in 1..Len(file_pairs)} = joined
        /\ Len(file_pairs) = Cardinality(joined)
        /\ \A k \in 1..(Len(file_pairs) - 1) :
              Least(PlacesOf(listed, file_pairs[k].bird_id))
                 < Least(PlacesOf(listed, file_pairs[k + 1].bird_id))
        /\ \A k \in 1..Len(file_pairs) :
              LET p == file_pairs[k]
                  v == PlacesOf(clips, p.bird_id)
                  g == PlacesOf(image_files, p.bird_id)
              IN  /\ p.files.video =
                        IF v # {} THEN <<video_files[Greatest(v)]>> ELSE <<>>
                  /\ p.files.image =
                        IF g # {} THEN <<image_files[Greatest(g)]>> ELSE <<>>

\* the number hashed at the k-th try of the bird with sequence number n
TriedNumber(n, k) == IF k = 0 THEN n ELSE n + 200 + k

\* C14: once the listings are joined, file_pairs holds the ids in order of
\* first appearance, clips before images, a repeated id keeping its place;
\* the i-th bird that receives a code is the i-th of that order and has
\* sequence number i; its code is the first candidate not held by an
\* earlier bird, so the codes are a function of the listings alone.
C14_JoinOrder ==
    /\ (pc \in {"validate", "save", "done"} /\ result # "no_files")
          => JoinedInListingOrder
    /\ \A i \in 1..Len(issued) :
          /\ issued[i].bird_id = file_pairs[i].bird_id
          /\ issued[i].bird_index = i
          /\ issued[i].bird_code = MD5Tail[TriedNumber(i, issued[i].attempts)]
          /\ \A k \in 0..(issued[i].attempts - 1) :
                \E j \in 1..(i - 1) :
                    issued[j].bird_code = MD5Tail[TriedNumber(i, k)]

\* C14 witness: two birds have their codes in a run whose third clip
\* repeats the id of the first: that bird keeps the first place and holds
\* the third clip
C14_Witness ==
    /\ Len(issued) >= 2
    /\ Len(video_files) >= 3
    /\ VideoId(video_files[3]) = VideoId(video_files[1])
    /\ VideoId(video_files[2]) # VideoId(video_files[1])
    /\ issued[1].bird_id = VideoId(video_files[1])
    /\ file_pairs[1].files.video = <<video_files[3]>>
    /\ issued[2].bird_index = 2

FacetsMissing(id) ==
    (IF HasVideo(id) THEN {} ELSE {"video/sound"})
    \cup (IF HasImage(id) THEN {} ELSE {"image"})
    \cup (IF HasLabel(id) THEN {} ELSE {"label"})

Validated == pc \in {"assign", "audio", "image", "check", "save"}
                \/ (pc = "done" /\ result # "no_files")

\* C15: after the validation the report has exactly one entry for every
\* joined bird that lacks a facet and none for a complete bird, each entry
\* lists exactly the facets the listings and the labels lack for that id,
\* and an id known only to the labels is not reported.
C15_ReportComplete ==
    Validated =>
        LET v == VideoIds
            g == ImageIds
            incomplete == (v \cup g) \ ((v \cap g) \cap DOMAIN labels)
            reported == {missing_components[k].bird_id : k \in 1..Len(missing_components)}
        IN  /\ reported = incomplete
            /\ Len(missing_components) = Cardinality(incomplete)
            /\ \A k \in 1..Len(missing_components) :
                  LET r == missing_components[k]
                  IN  /\ {r.missing[n] : n \in 1..Len(r.missing)} = FacetsMissing(r.bird_id)
                      /\ Len(r.missing) = Cardinality(FacetsMissing(r.bird_id))
            /\ \A id \in (DOMAIN labels) \ (v \cup g) : id \notin reported

\* C15 witness: a cancelled run reporting two birds, one of them lacking two
\* facets
C15_Witness ==
    /\ result = "cancelled"
    /\ Len(missing_components) >= 2
    /\ \E k \in 1..Len(missing_components) : Len(missing_components[k].missing) >= 2

\* A line read the way the label format is described: the id before the
\* first space, the names around the first comma of what follows.
FirstPlace(s, ch) == Least({i \in 1..Len(s) : s[i] = ch})
AfterFirstSpace(raw) ==
    LET line == Strip(raw)
    IN  SubSeq(line, FirstPlace(line, " ") + 1, Len(line))
CarriesLabel(raw) ==
    /\ Strip(raw) # <<>>
    /\ Has(Strip(raw), " ")
    /\ Has(AfterFirstSpace(raw), ",")
IdOfLine(raw) == SubSeq(Strip(raw), 1, FirstPlace(Strip(raw), " ") - 1)
EntryAsStated(raw) ==
    LET rest == AfterFirstSpace(raw)
        comma == FirstPlace(rest, ",")
    IN  [common |-> Strip(SubSeq(rest, 1, comma - 1)),
         scientific |-> Strip(SubSeq(rest, comma + 1, Len(rest)))]

\* C13 as stated: every line read that has a space and a comma after it has
\* put its id into the mapping, with the names before and after the first
\* comma unless a later line of the same id replaced them; a line without
\* such a comma did not end the load; a missing file gives the empty
\* mapping without an exception.
C13_AsStated ==
    /\ \A k \in 1..Len(lines_read) :
          IF CarriesLabel(lines_read[k])
          THEN /\ IdOfLine(lines_read[k]) \in DOMAIN labels
               /\ (\A n \in (k + 1)..Len(lines_read) :
                      ~(CarriesLabel(lines_read[n])
                        /\ IdOfLine(lines_read[n]) = IdOfLine(lines_read[k])))
                    => labels[IdOfLine(lines_read[k])] = EntryAsStated(lines_read[k])
          ELSE ~(result = "ValueError" /\ k = Len(lines_read))
    /\ ~labels_txt.exists => (labels = EmptyMap /\ result # "ValueError")

\* C12 as stated: the run fails with code-space exhaustion only when the
\* attempts counter of the item has gone past the bound 1000.
C12_AsStated ==
    result = "exhausted" => attempts > max_attempts

\* C12 amended: the run fails with code-space exhaustion exactly when the
\* attempts counter of the item reaches the bound 1000, which is when the 1000
\* candidates of that item alone (the counter starts at 0 for each item) are
\* all in the issued set; a bird with fewer collisions receives its code.  On
\* exhaustion the item has no code in the issued set, no catalog entry and no
\* artifact, no production step was run for it and no catalog is written.
C12_ExhaustionBound ==
    /\ attempts \in 0..max_attempts
    /\ attempts = max_attempts <=> result = "exhausted"
    /\ \A i \in 1..Len(issued) : issued[i].attempts < max_attempts
    /\ result = "exhausted" =>
          /\ pc = "done"
          /\ \A k \in 0..(max_attempts - 1) :
                MD5Tail[TriedNumber(bird_index, k)] \in used_codes
          /\ Len(issued) = cur - 1
          /\ used_codes = {issued[i].bird_code : i \in 1..Len(issued)}
          /\ DOMAIN birdmap = used_codes
          /\ sounds \subseteq used_codes
          /\ images \subseteq used_codes
          /\ \A j \in 1..Len(calls) : calls[j].item < cur
          /\ birdmap_json = <<>>

\* C12 witness: the run has failed with code-space exhaustion, after a bird
\* that received its code at the 1000th candidate
C12_Witness ==
    /\ result = "exhausted"
    /\ attempts = max_attempts
    /\ cur = Len(issued) + 1
    /\ issued[cur - 1].attempts = max_attempts - 1

====
